---- MODULE Spec2Model ----
(***************************************************************************)
(* A model of the VSM orchestrator: the cycle controller (VSMLoop),        *)
(* the adaptation engine (AdaptationEngine), the persisted state store     *)
(* (StateManager) and the execution log (ExecutionLog).                    *)
(*                                                                         *)
(* Rolling rates are exact rationals <<numerator, denominator>> in lowest  *)
(* terms.  A persisted document is a sequence of length 0 (the file is     *)
(* absent) or 1 (the file holds that record).  Python's None is the string *)
(* "None".  Timestamps are not modelled, except applied_at, which is the   *)
(* value of a logical clock.                                               *)
(***************************************************************************)
EXTENDS Integers, Sequences, FiniteSets, TLC

(***************************************************************************)
(* Bounds of the model.                                                    *)
(***************************************************************************)
\* longest allocation a control collaborator writes
MaxAgents == 2
\* the logical time up to which the engine's methods are called directly
MaxClock == 3
\* how many metric updates follow one another
MaxUpdates == 4
\* how many times the hook runs beside the two cycles
MaxHookRuns == 1
\* how many lines are appended to the execution log
MaxEntries == 3
\* patterns of one tier a description matches
MaxKeywords == 4
\* how many cycles follow one another on one state directory
MaxCycles == 3

\* the operations agents the control collaborator allocates
AgentNames == {"tester", "code-writer"}
\* the tiers the collaborators answer with
Tiers == {"simple", "medium"}
TaskId == "t1"
\* the task ids of two cycles on one state directory
TaskIds == {TaskId, "t2"}
TaskDescription == "Add tests for the parser"
SessionId == "session-1"

(***************************************************************************)
(* Exact rational arithmetic for the rolling rates.                        *)
(***************************************************************************)
RECURSIVE GCD(_, _)
GCD(a, b) == IF b = 0 THEN a ELSE GCD(b, a % b)

Rat(n, d) == LET g == GCD(n, d) IN IF g = 0 THEN <<0, 1>> ELSE <<n \div g, d \div g>>

RGt(r, s) == r[1] * s[2] > s[1] * r[2]
RLt(r, s) == r[1] * s[2] < s[1] * r[2]
RLe(r, s) == ~RGt(r, s)

RZero == <<0, 1>>
ROne == <<1, 1>>

\* alpha * value + (1 - alpha) * old, with value 0 or 1
\* the old value kept whole: alpha * value + old
EMA_NoDecay(alpha, value, old) ==
    Rat(alpha[1] * value * old[2] + alpha[2] * old[1], alpha[2] * old[2])

EMA(alpha, value, old) ==
    Rat(alpha[1] * value * old[2] + (alpha[2] - alpha[1]) * old[1],
        alpha[2] * old[2])

(***************************************************************************)
(* state_manager.py: the documents and their defaults.                     *)
(***************************************************************************)
DefaultMetrics ==
    [completion_rate      |-> ROne,
     agent_errors         |-> <<>>,
     oscillation_rate     |-> RZero,
     audit_pass_rate      |-> ROne,
     s3_s4_conflicts      |-> 0,
     avg_cycle_iterations |-> ROne,
     active_adaptations   |-> <<>>]

RegistryAgents ==
    {"generalist-coder", "code-writer", "tester", "reviewer", "documenter",
     "frontend", "backend", "database", "infrastructure"}

DefaultRegistry ==
    [a \in RegistryAgents |-> [status |-> "available", current_task |-> "unset"]]

\* agent_errors is an insertion-ordered dict: a sequence of [agent, rate]
ErrorKeys(errs) == {errs[i].agent : i \in 1..Len(errs)}
ErrorOf(errs, a) == LET i == CHOOSE j \in 1..Len(errs) : errs[j].agent = a IN errs[i].rate
RECURSIVE SetError(_, _, _)
SetError(errs, a, r) ==
    IF errs = <<>> THEN <<[agent |-> a, rate |-> r]>>
    ELSE IF Head(errs).agent = a THEN <<[agent |-> a, rate |-> r]>> \o Tail(errs)
    ELSE <<Head(errs)>> \o SetError(Tail(errs), a, r)

(***************************************************************************)
(* adaptation.py: the thresholds and the adaptation types.                 *)
(***************************************************************************)
AGENT_ERROR_THRESHOLD == <<3, 10>>
ESCALATION_THRESHOLD == <<1, 2>>
OSCILLATION_THRESHOLD == <<1, 5>>
POLICY_CONFLICT_THRESHOLD == 3
AUDIT_FAILURE_THRESHOLD == <<1, 5>>
PARALLELIZE_THRESHOLD == <<3, 2>>

ADD_REVIEW_STEP == "add_review_step"
LOWER_COMPLEXITY_THRESHOLD == "lower_complexity_threshold"
INCREASE_S2_INVOLVEMENT == "increase_s2_involvement"
REQUIRE_S5_APPROVAL == "require_s5_approval"
PARALLELIZE_S1 == "parallelize_s1"
TIGHTEN_S3_STAR == "tighten_s3_star"

AdaptationTypes ==
    {ADD_REVIEW_STEP, LOWER_COMPLEXITY_THRESHOLD, INCREASE_S2_INVOLVEMENT,
     REQUIRE_S5_APPROVAL, PARALLELIZE_S1, TIGHTEN_S3_STAR}

\* Adaptation(type, trigger, effect, applied_at = "", parameters);
\* applied_at 0 is the empty string, target "None" is parameters = {}
Adaptation(type, trigger, effect, target) ==
    [type |-> type, trigger |-> trigger, effect |-> effect,
     applied_at |-> 0, target |-> target]

ReviewAdaptation(a) ==
    Adaptation(ADD_REVIEW_STEP, a \o "_errors", "Add reviewer before " \o a, a)

\* the threshold included: >= in place of >
RECURSIVE ReviewProposals_Inclusive(_)
ReviewProposals_Inclusive(errs) ==
    IF errs = <<>> THEN <<>>
    ELSE (IF ~RLt(Head(errs).rate, AGENT_ERROR_THRESHOLD)
          THEN <<ReviewAdaptation(Head(errs).agent)>> ELSE <<>>)
         \o ReviewProposals_Inclusive(Tail(errs))

RECURSIVE ReviewProposals(_)
ReviewProposals(errs) ==
    IF errs = <<>> THEN <<>>
    ELSE (IF RGt(Head(errs).rate, AGENT_ERROR_THRESHOLD)
          THEN <<ReviewAdaptation(Head(errs).agent)>> ELSE <<>>)
         \o ReviewProposals(Tail(errs))

OneMinus(r) == Rat(r[2] - r[1], r[2])

analyze_metrics(m) ==
    ReviewProposals(m.agent_errors)
    \o (IF RLt(m.completion_rate, ESCALATION_THRESHOLD)
        THEN <<Adaptation(LOWER_COMPLEXITY_THRESHOLD, "low_completion_rate",
                          "Use specialists earlier for lower complexity tasks", "None")>>
        ELSE <<>>)
    \o (IF RGt(m.oscillation_rate, OSCILLATION_THRESHOLD)
        THEN <<Adaptation(INCREASE_S2_INVOLVEMENT, "high_oscillation",
                          "More coordination between S1 agents", "None")>>
        ELSE <<>>)
    \o (IF m.s3_s4_conflicts > POLICY_CONFLICT_THRESHOLD
        THEN <<Adaptation(REQUIRE_S5_APPROVAL, "frequent_s3_s4_conflicts",
                          "Require S5 approval for S3 allocation decisions", "None")>>
        ELSE <<>>)
    \o (IF RLt(m.audit_pass_rate, OneMinus(AUDIT_FAILURE_THRESHOLD))
        THEN <<Adaptation(TIGHTEN_S3_STAR, "low_audit_pass_rate",
                          "More frequent and thorough S3* audits", "None")>>
        ELSE <<>>)
    \o (IF RGt(m.avg_cycle_iterations, PARALLELIZE_THRESHOLD)
        THEN <<Adaptation(PARALLELIZE_S1, "slow_execution",
                          "Run compatible S1 agents concurrently", "None")>>
        ELSE <<>>)

ActiveTypes(active) == {active[i].type : i \in 1..Len(active)}

\* The loop of apply_adaptations over the list from position i on: r.active is
\* metrics.active_adaptations, r.list the caller's Adaptation objects (whose
\* applied_at the loop sets), r.clock the time.
RECURSIVE ApplyLoop(_, _)
ApplyLoop(r, i) ==
    IF i > Len(r.list) THEN r
    ELSE IF r.list[i].type \in ActiveTypes(r.active)
         THEN ApplyLoop(r, i + 1)
         ELSE LET stamped == [r.list[i] EXCEPT !.applied_at = r.clock + 1]
              IN ApplyLoop([active |-> Append(r.active, stamped),
                            list   |-> [r.list EXCEPT ![i] = stamped],
                            clock  |-> r.clock + 1], i + 1)

ShouldOfType(active, type) == \E i \in 1..Len(active) : active[i].type = type

\* the target compared with the invoked name, "s1-" included
should_add_review_step_InvokedName(active, before_agent) ==
    \E i \in 1..Len(active) :
        active[i].type = ADD_REVIEW_STEP /\ active[i].target = "s1-" \o before_agent

should_add_review_step(active, before_agent) ==
    \E i \in 1..Len(active) :
        active[i].type = ADD_REVIEW_STEP /\ active[i].target = before_agent

\* the wrong type looked for
should_require_s5_approval_WrongType(active) ==
    ShouldOfType(active, INCREASE_S2_INVOLVEMENT)

should_require_s5_approval(active) == ShouldOfType(active, REQUIRE_S5_APPROVAL)
should_increase_s2(active) == ShouldOfType(active, INCREASE_S2_INVOLVEMENT)
should_parallelize(active) == ShouldOfType(active, PARALLELIZE_S1)

(***************************************************************************)
(* The state.                                                              *)
(***************************************************************************)
VARIABLES
    pc,            \* where run_cycle stands
    outcome,       \* "none", "returned" or "raised"
    exc,           \* the text of the exception run_cycle raised
    current_task,  \* run_cycle's CurrentTask object
    task_doc,      \* current-task.json
    metrics_doc,   \* viability-metrics.json
    registry_doc,  \* agent-registry.json
    s3_doc,        \* s3-allocations.json
    s4_doc,        \* s4-environment.json
    log,           \* execution-log.jsonl
    clock,         \* the logical time of applied_at
    metrics,       \* run_cycle's local metrics (line 104)
    adaptations,   \* run_cycle's local adaptations, or the engine's last analysis
    s4_result, s3_result, s1_results, audit_result, conflicts,
    should_parallel, \* _execute_s1_agents' local
    idx,           \* the position of _execute_s1_agents' loop
    calls,         \* the collaborator invocations made, in order
    inflight,      \* the collaborator process that is running, or "None"
    cycle_result   \* the VSMCycleResult run_cycle returned

vars == <<pc, outcome, exc, current_task, task_doc, metrics_doc, registry_doc,
          s3_doc, s4_doc, log, clock, metrics, adaptations,
          s4_result, s3_result, s1_results, audit_result, conflicts,
          should_parallel, idx, calls, inflight, cycle_result>>

(***************************************************************************)
(* state_manager.py: reads and read-modify-writes of the documents.        *)
(***************************************************************************)
get_viability_metrics(doc) == IF doc = <<>> THEN DefaultMetrics ELSE doc[1]

ALPHA_AGENT == <<1, 5>>
ALPHA_COMPLETION == <<1, 10>>
ALPHA_OSCILLATION == <<3, 20>>
ALPHA_AUDIT == <<3, 20>>

record_agent_result(doc, agent_name, success) ==
    LET m == get_viability_metrics(doc)
        old == IF agent_name \in ErrorKeys(m.agent_errors)
               THEN ErrorOf(m.agent_errors, agent_name) ELSE RZero
        new == EMA(ALPHA_AGENT, IF success THEN 0 ELSE 1, old)
    IN <<[m EXCEPT !.agent_errors = SetError(@, agent_name, new)]>>

record_task_completion(doc, success) ==
    LET m == get_viability_metrics(doc)
    IN <<[m EXCEPT !.completion_rate =
                       EMA(ALPHA_COMPLETION, IF success THEN 1 ELSE 0, @)]>>

record_oscillation(doc) ==
    LET m == get_viability_metrics(doc)
    IN <<[m EXCEPT !.oscillation_rate = EMA(ALPHA_OSCILLATION, 1, @)]>>

record_audit_result(doc, passed) ==
    LET m == get_viability_metrics(doc)
    IN <<[m EXCEPT !.audit_pass_rate =
                       EMA(ALPHA_AUDIT, IF passed THEN 1 ELSE 0, @)]>>

\* the counter stepped by two
record_s3_s4_conflict_ByTwo(doc) ==
    LET m == get_viability_metrics(doc)
    IN <<[m EXCEPT !.s3_s4_conflicts = @ + 2]>>

record_s3_s4_conflict(doc) ==
    LET m == get_viability_metrics(doc)
    IN <<[m EXCEPT !.s3_s4_conflicts = @ + 1]>>

get_agent_registry(doc) == IF doc = <<>> THEN DefaultRegistry ELSE doc[1]

\* get_agent_registry writes the default registry when the file is absent
update_agent_status(doc, agent_name, status, task) ==
    LET registry == get_agent_registry(doc)
    IN IF agent_name \in DOMAIN registry
       THEN <<[registry EXCEPT ![agent_name] =
                                   [status |-> status, current_task |-> task]]>>
       ELSE <<registry>>

(***************************************************************************)
(* execution_log.py: the entries the convenience methods append.           *)
(***************************************************************************)
BoolStr(b) == IF b THEN "true" ELSE "false"

\* LogEntry.create followed by append, which stamps the log's session id
LogAppend(l, event_type, task_id, agent, data) ==
    Append(l, [event_type |-> event_type, task_id |-> task_id, agent |-> agent,
               data |-> data, session_id |-> SessionId])

log_task_started(l, task_id, description) ==
    LogAppend(l, "task_started", task_id, "None",
              {<<"description", description>>, <<"complexity", "unknown">>})

\* the event type not depending on success
log_task_completed_AlwaysCompleted(l, task_id, success, summary) ==
    LogAppend(l, "task_completed", task_id, "None",
              {<<"success", BoolStr(success)>>, <<"summary", summary>>})

\* lines 107-111
log_task_completed(l, task_id, success, summary) ==
    LogAppend(l, IF success THEN "task_completed" ELSE "task_failed", task_id, "None",
              {<<"success", BoolStr(success)>>, <<"summary", summary>>})

log_agent_invoked(l, agent, task_id, prompt) ==
    LogAppend(l, "agent_invoked", task_id, agent, {<<"prompt_preview", prompt>>})

log_agent_completed(l, agent, task_id, success) ==
    LogAppend(l, IF success THEN "agent_completed" ELSE "agent_error", task_id, agent,
              {<<"success", BoolStr(success)>>, <<"result_summary", "">>})

log_audit(l, task_id, passed) ==
    LogAppend(l, "audit_performed", task_id, "None", {<<"passed", BoolStr(passed)>>})

log_conflict(l, task_id, s3_position, s4_position) ==
    LogAppend(l, "conflict_detected", task_id, "None",
              {<<"s3_position", s3_position>>, <<"s4_position", s4_position>>})

log_policy_decision(l, task_id, decision) ==
    LogAppend(l, "policy_decision", task_id, "None", {<<"decision", decision>>})

log_adaptation(l, a) ==
    LogAppend(l, "adaptation_applied", "None", "None",
              {<<"adaptation_type", a.type>>, <<"trigger", a.trigger>>,
               <<"effect", a.effect>>})

RECURSIVE LogAdaptations(_, _)
LogAdaptations(l, as) ==
    IF as = <<>> THEN l ELSE LogAdaptations(log_adaptation(l, Head(as)), Tail(as))

(***************************************************************************)
(* execution_log.py: append and the queries.  A line of the log file is a  *)
(* record; the timestamp, which every writer sets, is left out of it.      *)
(***************************************************************************)
\* the fields of LogEntry, timestamp apart
LogFields == {"event_type", "task_id", "agent", "data", "session_id"}

LogEventTypes ==
    {"task_started", "task_completed", "task_failed", "agent_invoked",
     "agent_completed", "agent_error", "state_changed", "allocation_made",
     "audit_performed", "conflict_detected", "policy_decision",
     "adaptation_applied", "oscillation_detected"}

\* the creator's session id kept
append_KeepsCreatorSession(l, session_id, entry) == Append(l, entry)

\* ExecutionLog.append of the log whose session id is session_id
append(l, session_id, entry) == Append(l, [entry EXCEPT !.session_id = session_id])

\* LogEntry.from_json: cls(**data) raises unless the keys are the fields
from_json_raises(line) == DOMAIN line # LogFields

\* read_all: the entries in file order, or the exception of from_json
read_all(l) ==
    IF \E i \in 1..Len(l) : from_json_raises(l[i])
    THEN [ok |-> FALSE, entries |-> <<>>]
    ELSE [ok |-> TRUE, entries |-> l]

RECURSIVE Comprehension(_, _, _)
\* [e for e in entries if e.<field> == value]
Comprehension(entries, field, value) ==
    IF entries = <<>> THEN <<>>
    ELSE (IF Head(entries)[field] = value THEN <<Head(entries)>> ELSE <<>>)
         \o Comprehension(Tail(entries), field, value)

read_session(l, session_id) ==
    LET all == read_all(l)
    IN [all EXCEPT !.entries = Comprehension(@, "session_id", session_id)]

read_task(l, task_id) ==
    LET all == read_all(l)
    IN [all EXCEPT !.entries = Comprehension(@, "task_id", task_id)]

\* entries[start:] of Python for a start that may be negative
SliceFrom(entries, start) ==
    LET from == IF start < 0
                THEN (IF Len(entries) + start > 0 THEN Len(entries) + start ELSE 0)
                ELSE (IF start < Len(entries) THEN start ELSE Len(entries))
    IN SubSeq(entries, from + 1, Len(entries))

\* lines 178-181
read_recent(l, count) ==
    LET r == read_all(l)
    IN IF ~r.ok THEN r
       ELSE [ok |-> TRUE,
             entries |-> IF Len(r.entries) > count
                         THEN SliceFrom(r.entries, 0 - count) ELSE r.entries]

\* entry.data.get(key), with None for a missing key
DataGet(data, key) ==
    IF \E kv \in data : kv[1] = key
    THEN (CHOOSE kv \in data : kv[1] = key)[2] ELSE "None"

RECURSIVE SummaryLoop(_, _)
\* the for loop of get_task_summary, lines 200-214
SummaryLoop(summary, entries) ==
    IF entries = <<>> THEN summary
    ELSE LET entry == Head(entries)
             t == entry.event_type
             next ==
               IF t = "task_started"
               THEN [summary EXCEPT !.started_at = "set", !.status = "in_progress"]
               ELSE IF t = "task_completed"
               THEN [summary EXCEPT !.completed_at = "set",
                        !.status = IF DataGet(entry.data, "success") = "true"
                                   THEN "completed" ELSE "failed"]
               ELSE IF t = "agent_invoked"
               THEN [summary EXCEPT !.agents_invoked = Append(@, entry.agent)]
               ELSE IF t = "audit_performed"
               THEN [summary EXCEPT !.audit_passed = DataGet(entry.data, "passed")]
               ELSE IF t = "conflict_detected"
               THEN [summary EXCEPT !.conflicts = Append(@, entry.data)]
               ELSE IF t = "adaptation_applied"
               THEN [summary EXCEPT !.adaptations = Append(@, entry.data)]
               ELSE summary
         IN SummaryLoop(next, Tail(entries))

\* get_task_summary when read_all does not raise
get_task_summary(l, task_id) ==
    LET entries == read_task(l, task_id).entries
    IN IF entries = <<>>
       THEN [task_id |-> task_id, started_at |-> "None", completed_at |-> "None",
             status |-> "not_found", agents_invoked |-> <<>>,
             audit_passed |-> "None", conflicts |-> <<>>, adaptations |-> <<>>]
       ELSE SummaryLoop([task_id |-> task_id, started_at |-> "None",
                         completed_at |-> "None", status |-> "unknown",
                         agents_invoked |-> <<>>, audit_passed |-> "None",
                         conflicts |-> <<>>, adaptations |-> <<>>], entries)

(***************************************************************************)
(* adaptation.py: apply_adaptations and clear_adaptation on the document.  *)
(***************************************************************************)
\* active_types computed once, before the loop
RECURSIVE ApplyLoop_TypesBefore(_, _, _)
ApplyLoop_TypesBefore(r, i, types) ==
    IF i > Len(r.list) THEN r
    ELSE IF r.list[i].type \in types
         THEN ApplyLoop_TypesBefore(r, i + 1, types)
         ELSE LET stamped == [r.list[i] EXCEPT !.applied_at = r.clock + 1]
              IN ApplyLoop_TypesBefore([active |-> Append(r.active, stamped),
                                        list   |-> [r.list EXCEPT ![i] = stamped],
                                        clock  |-> r.clock + 1], i + 1, types)

apply_adaptations_TypesBefore(doc, list, clk) ==
    IF list = <<>> THEN [doc |-> doc, list |-> list, clock |-> clk]
    ELSE LET m == get_viability_metrics(doc)
             r == ApplyLoop_TypesBefore([active |-> m.active_adaptations,
                                         list |-> list, clock |-> clk], 1,
                                        ActiveTypes(m.active_adaptations))
         IN [doc   |-> <<[m EXCEPT !.active_adaptations = r.active]>>,
             list  |-> r.list,
             clock |-> r.clock]

\* [doc, list, clock] after apply_adaptations(list)
apply_adaptations(doc, list, clk) ==
    IF list = <<>> THEN [doc |-> doc, list |-> list, clock |-> clk]
    ELSE LET m == get_viability_metrics(doc)
             r == ApplyLoop([active |-> m.active_adaptations, list |-> list,
                             clock |-> clk], 1)
         IN [doc   |-> <<[m EXCEPT !.active_adaptations = r.active]>>,
             list  |-> r.list,
             clock |-> r.clock]

get_active_adaptations(doc) == get_viability_metrics(doc).active_adaptations

RECURSIVE OtherTypes(_, _)
\* [a for a in active if a.get("type") != type]
OtherTypes(active, type) ==
    IF active = <<>> THEN <<>>
    ELSE (IF Head(active).type # type THEN <<Head(active)>> ELSE <<>>)
         \o OtherTypes(Tail(active), type)

\* the whole list emptied
clear_adaptation_ClearsAll(doc, type) ==
    <<[get_viability_metrics(doc) EXCEPT !.active_adaptations = <<>>]>>

\* clear_adaptation, lines 158-170: the document after it
clear_adaptation(doc, type) ==
    <<[get_viability_metrics(doc) EXCEPT !.active_adaptations = OtherTypes(@, type)]>>

(***************************************************************************)
(* The inputs of the model.                                                *)
(***************************************************************************)
\* the allocations a control collaborator writes
Allocations == UNION {[1..n -> AgentNames] : n \in 0..MaxAgents}

S3Docs ==
    [task_id : {TaskId}, complexity : Tiers, selected_agents : Allocations]

\* recommended_approach: a dict with a complexity_assessment, or a string
S4Docs ==
    {[task_id |-> TaskId, rec |-> [is_dict |-> TRUE, ca |-> "simple"]],
     [task_id |-> TaskId, rec |-> [is_dict |-> FALSE, ca |-> ""]]}

\* what the policy collaborator prints when asked to approve
ApprovalOutputs == {"approved", "rejected", "no approved key", "not json"}

\* what the audit collaborator prints and whether its process succeeded
AuditOutputs ==
    {[json |-> TRUE, audit_passed |-> TRUE, oscillation |-> FALSE, success |-> TRUE],
     [json |-> TRUE, audit_passed |-> FALSE, oscillation |-> FALSE, success |-> TRUE],
     [json |-> TRUE, audit_passed |-> TRUE, oscillation |-> TRUE, success |-> TRUE],
     [json |-> FALSE, audit_passed |-> FALSE, oscillation |-> FALSE, success |-> TRUE],
     [json |-> FALSE, audit_passed |-> FALSE, oscillation |-> FALSE, success |-> FALSE]}

\* what the policy collaborator prints when asked to resolve a conflict
ResolutionOutputs == {"json", "not json"}

\* rolling error rates earlier sessions leave: one failure, two failures
RateOneFailure == EMA(ALPHA_AGENT, 1, RZero)
RateTwoFailures == EMA(ALPHA_AGENT, 1, RateOneFailure)

Err(a, r) == [agent |-> a, rate |-> r]
\* an adaptation applied by an earlier session, at time 1
Standing(a) == [a EXCEPT !.applied_at = 1]

RequireApproval ==
    Adaptation(REQUIRE_S5_APPROVAL, "frequent_s3_s4_conflicts",
               "Require S5 approval for S3 allocation decisions", "None")
Parallelize ==
    Adaptation(PARALLELIZE_S1, "slow_execution",
               "Run compatible S1 agents concurrently", "None")

MetricsWith(errs, c, active) ==
    <<[DefaultMetrics EXCEPT !.agent_errors = errs, !.s3_s4_conflicts = c,
                             !.active_adaptations = active]>>

\* the metrics documents earlier sessions leave, or none
InitMetricsDocs ==
    {<<>>,
     MetricsWith(<<Err("tester", RateOneFailure)>>, POLICY_CONFLICT_THRESHOLD, <<>>),
     MetricsWith(<<Err("tester", RateTwoFailures)>>, POLICY_CONFLICT_THRESHOLD, <<>>),
     MetricsWith(<<Err("tester", RateTwoFailures)>>, POLICY_CONFLICT_THRESHOLD + 1, <<>>),
     MetricsWith(<<Err("tester", RateTwoFailures), Err("code-writer", RateTwoFailures)>>,
                 POLICY_CONFLICT_THRESHOLD, <<>>),
     MetricsWith(<<Err("code-writer", RateTwoFailures)>>, POLICY_CONFLICT_THRESHOLD,
                 <<Standing(ReviewAdaptation("tester"))>>),
     MetricsWith(<<>>, POLICY_CONFLICT_THRESHOLD, <<Standing(RequireApproval)>>),
     MetricsWith(<<Err("tester", RateTwoFailures)>>, POLICY_CONFLICT_THRESHOLD,
                 <<Standing(Parallelize)>>)}

NoS4Result == [from_doc |-> FALSE, rec |-> [is_dict |-> FALSE, ca |-> ""]]
NoS3Result == [from_doc |-> FALSE, complexity |-> "", selected_agents |-> <<>>]
NoAuditResult == [from_json |-> FALSE, audit_passed |-> FALSE, oscillation |-> FALSE]

\* run_cycle has not been called
NotStarted ==
    /\ outcome = "none"
    /\ exc = "None"
    /\ current_task = <<>>
    /\ task_doc = <<>>
    /\ registry_doc = <<>>
    /\ s3_doc = <<>>
    /\ s4_doc = <<>>
    /\ log = <<>>
    /\ clock = 1
    /\ adaptations = <<>>
    /\ s4_result = NoS4Result
    /\ s3_result = NoS3Result
    /\ s1_results = <<>>
    /\ audit_result = NoAuditResult
    /\ conflicts = <<>>
    /\ should_parallel = FALSE
    /\ idx = 0
    /\ calls = <<>>
    /\ inflight = "None"
    /\ cycle_result = <<>>

Init ==
    /\ pc = "idle"
    /\ metrics_doc \in InitMetricsDocs
    /\ metrics = <<>>
    /\ NotStarted

(***************************************************************************)
(* adaptation.py alone: analyze_metrics as a function of its argument.     *)
(***************************************************************************)
\* values on and next to each threshold of analyze_metrics
AnalyzeRates == {<<1, 5>>, <<3, 10>>, <<31, 100>>}
AnalyzeErrors ==
    {<<>>} \cup {<<Err("tester", r)>> : r \in AnalyzeRates}
    \cup {<<Err("tester", r), Err("code-writer", q)>> : r, q \in AnalyzeRates}

AnalyzeInputs ==
    [completion_rate      : {<<1, 2>>, <<49, 100>>},
     agent_errors         : AnalyzeErrors,
     oscillation_rate     : {<<1, 5>>, <<21, 100>>},
     audit_pass_rate      : {<<4, 5>>, <<79, 100>>},
     s3_s4_conflicts      : {3, 4},
     avg_cycle_iterations : {<<3, 2>>, <<8, 5>>},
     active_adaptations   : {<<>>}]

InitAnalyze ==
    /\ pc = "analyze"
    /\ metrics_doc = <<>>
    /\ metrics \in {<<m>> : m \in AnalyzeInputs}
    /\ NotStarted

Analyze ==
    /\ pc = "analyze"
    /\ adaptations' = analyze_metrics(metrics[1])
    /\ pc' = "analyzed"
    /\ UNCHANGED <<outcome, exc, current_task, task_doc, metrics_doc, registry_doc,
                   s3_doc, s4_doc, log, clock, metrics, s4_result, s3_result,
                   s1_results, audit_result, conflicts, should_parallel, idx,
                   calls, inflight, cycle_result>>

SpecAnalyze == InitAnalyze /\ [][Analyze]_vars

(***************************************************************************)
(* adaptation.py alone: apply_adaptations called directly, with any list.  *)
(***************************************************************************)
EngineAdaptations ==
    {ReviewAdaptation("tester"), ReviewAdaptation("code-writer"),
     RequireApproval, Parallelize,
     Adaptation(REQUIRE_S5_APPROVAL, "operator_request",
                "Require S5 approval for S3 allocation decisions", "None"),
     Adaptation(TIGHTEN_S3_STAR, "low_audit_pass_rate",
                "More frequent and thorough S3* audits", "None")}

\* the lists a caller passes: up to two adaptations, of the same type or not
EngineLists == UNION {[1..n -> EngineAdaptations] : n \in 0..2}

InitEngine ==
    /\ pc = "engine"
    /\ metrics_doc = <<>>
    /\ metrics = <<>>
    /\ NotStarted

EngineApply ==
    /\ pc = "engine"
    /\ clock < MaxClock
    /\ \E list \in EngineLists :
        LET r == apply_adaptations(metrics_doc, list, clock)
        IN /\ metrics_doc' = r.doc
           /\ adaptations' = r.list
           /\ clock' = r.clock
    /\ UNCHANGED <<pc, outcome, exc, current_task, task_doc, registry_doc, s3_doc,
                   s4_doc, log, metrics, s4_result, s3_result, s1_results,
                   audit_result, conflicts, should_parallel, idx, calls, inflight,
                   cycle_result>>

SpecEngine == InitEngine /\ [][EngineApply]_vars

(***************************************************************************)
(* adaptation.py and state_manager.py: the adaptation step of a cycle,     *)
(* clear_adaptation and the metric updates in any order, from metrics of   *)
(* earlier cycles that hold or are about to trigger an adaptation.         *)
(* cycle_result names the type the last clear_adaptation was called with.  *)
(***************************************************************************)
InitExpiry ==
    /\ pc = "engine"
    /\ metrics_doc \in {d \in InitMetricsDocs \ {<<>>} :
                          \/ d[1].active_adaptations # <<>>
                          \/ d[1].s3_s4_conflicts > POLICY_CONFLICT_THRESHOLD}
    /\ metrics = <<>>
    /\ NotStarted

\* run_cycle lines 104-107: analyze_metrics and apply_adaptations
CycleAdapts ==
    /\ pc = "engine" /\ clock < MaxClock
    /\ LET r == apply_adaptations(metrics_doc,
                                  analyze_metrics(get_viability_metrics(metrics_doc)),
                                  clock)
       IN /\ metrics_doc' = r.doc
          /\ adaptations' = r.list
          /\ clock' = r.clock
    /\ UNCHANGED <<pc, outcome, exc, current_task, task_doc, registry_doc, s3_doc,
                   s4_doc, log, metrics, s4_result, s3_result, s1_results,
                   audit_result, conflicts, should_parallel, idx, calls, inflight,
                   cycle_result>>

ClearAdaptation(type) ==
    /\ pc = "engine"
    /\ metrics_doc' = clear_adaptation(metrics_doc, type)
    /\ cycle_result' = <<[cleared |-> type]>>
    /\ UNCHANGED <<pc, outcome, exc, current_task, task_doc, registry_doc, s3_doc,
                   s4_doc, log, clock, metrics, adaptations, s4_result, s3_result,
                   s1_results, audit_result, conflicts, should_parallel, idx,
                   calls, inflight>>

\* one of the record_* methods of state_manager.py, lines 144-194
EngineMetricUpdate ==
    /\ pc = "engine" /\ idx < MaxClock
    /\ \/ \E success \in BOOLEAN :
             metrics_doc' = record_agent_result(metrics_doc, "tester", success)
       \/ metrics_doc' = record_task_completion(metrics_doc, FALSE)
       \/ metrics_doc' = record_oscillation(metrics_doc)
       \/ metrics_doc' = record_audit_result(metrics_doc, FALSE)
       \/ metrics_doc' = record_s3_s4_conflict(metrics_doc)
    /\ idx' = idx + 1
    /\ UNCHANGED <<pc, outcome, exc, current_task, task_doc, registry_doc, s3_doc,
                   s4_doc, log, clock, metrics, adaptations, s4_result, s3_result,
                   s1_results, audit_result, conflicts, should_parallel, calls,
                   inflight, cycle_result>>

NextExpiry ==
    \/ CycleAdapts
    \/ \E type \in AdaptationTypes : ClearAdaptation(type)
    \/ EngineMetricUpdate

SpecExpiry == InitExpiry /\ [][NextExpiry]_vars

(***************************************************************************)
(* state_manager.py and hooks/update_metrics.py: the metric updates, one   *)
(* after the other in any order, from the default metrics.                 *)
(***************************************************************************)
\* agent_name.replace("s1-", "").replace("system1-", "")
HookAgentKey(agent_name) ==
    IF \E a \in AgentNames : agent_name \in {"s1-" \o a, "system1-" \o a}
    THEN CHOOSE a \in AgentNames : agent_name \in {"s1-" \o a, "system1-" \o a}
    ELSE agent_name

\* status.lower() in ["error", "failed", "failure"]
HookIsError(status) == status \in {"error", "failed", "failure"}

\* the names and statuses the hook is called with
HookAgentNames == {"s1-tester", "code-writer"}
HookStatuses == {"completed", "failed"}

\* the hook counting each completion as one more iteration of the cycle
update_agent_metrics_CountsIterations(doc, agent_name, status) ==
    LET m == get_viability_metrics(doc)
        key == HookAgentKey(agent_name)
        old == IF key \in ErrorKeys(m.agent_errors)
               THEN ErrorOf(m.agent_errors, key) ELSE RZero
        new == EMA(<<1, 5>>, IF HookIsError(status) THEN 1 ELSE 0, old)
    IN <<[m EXCEPT !.agent_errors = SetError(@, key, new),
                   !.avg_cycle_iterations = Rat(@[1] + @[2], @[2])]>>

\* load_metrics, the update and save_metrics of update_agent_metrics
update_agent_metrics(doc, agent_name, status) ==
    LET m == get_viability_metrics(doc)
        key == HookAgentKey(agent_name)
        old == IF key \in ErrorKeys(m.agent_errors)
               THEN ErrorOf(m.agent_errors, key) ELSE RZero
        new == EMA(<<1, 5>>, IF HookIsError(status) THEN 1 ELSE 0, old)
    IN <<[m EXCEPT !.agent_errors = SetError(@, key, new)]>>

\* the line the hook appends to the execution log
HookLogEntry(doc, agent_name, status) ==
    [event_type |-> "agent_completed", agent |-> agent_name, status |-> status,
     error_rate_after |->
        ErrorOf(get_viability_metrics(doc).agent_errors, HookAgentKey(agent_name))]

InitRates ==
    /\ pc = "rates"
    /\ metrics_doc = <<>>
    /\ metrics = <<>>
    /\ NotStarted

RatesUnchanged ==
    UNCHANGED <<pc, outcome, exc, current_task, task_doc, registry_doc, s3_doc,
                s4_doc, clock, metrics, adaptations, s4_result, s3_result,
                s1_results, audit_result, conflicts, should_parallel, calls,
                inflight, cycle_result>>

RecordAgentResultStep ==
    /\ pc = "rates" /\ idx < MaxUpdates
    /\ \E a \in AgentNames, success \in BOOLEAN :
          metrics_doc' = record_agent_result(metrics_doc, a, success)
    /\ idx' = idx + 1
    /\ UNCHANGED log /\ RatesUnchanged

RecordTaskCompletionStep ==
    /\ pc = "rates" /\ idx < MaxUpdates
    /\ \E success \in BOOLEAN :
          metrics_doc' = record_task_completion(metrics_doc, success)
    /\ idx' = idx + 1
    /\ UNCHANGED log /\ RatesUnchanged

RecordOscillationStep ==
    /\ pc = "rates" /\ idx < MaxUpdates
    /\ metrics_doc' = record_oscillation(metrics_doc)
    /\ idx' = idx + 1
    /\ UNCHANGED log /\ RatesUnchanged

RecordAuditResultStep ==
    /\ pc = "rates" /\ idx < MaxUpdates
    /\ \E passed \in BOOLEAN :
          metrics_doc' = record_audit_result(metrics_doc, passed)
    /\ idx' = idx + 1
    /\ UNCHANGED log /\ RatesUnchanged

UpdateAgentMetricsHook ==
    /\ pc = "rates" /\ idx < MaxUpdates
    /\ \E agent_name \in HookAgentNames, status \in HookStatuses :
          /\ metrics_doc' = update_agent_metrics(metrics_doc, agent_name, status)
          /\ log' = Append(log, HookLogEntry(metrics_doc', agent_name, status))
    /\ idx' = idx + 1
    /\ RatesUnchanged

NextRates ==
    \/ RecordAgentResultStep
    \/ RecordTaskCompletionStep
    \/ RecordOscillationStep
    \/ RecordAuditResultStep
    \/ UpdateAgentMetricsHook

SpecRates == InitRates /\ [][NextRates]_vars

(***************************************************************************)
(* state_manager.py: the five documents written, removed by reset_state    *)
(* and read back through the getters.                                      *)
(***************************************************************************)
Documents ==
    {"current_task", "viability_metrics", "agent_registry", "s3_allocation",
     "s4_environment"}

\* no getter has been called since the last write or reset
Unread == [d \in Documents |-> <<>>]

InitReset ==
    /\ pc = "store"
    /\ metrics_doc = <<>>
    /\ metrics = <<>>
    /\ NotStarted

\* set_current_task, update_viability_metrics (through record_s3_s4_conflict),
\* update_agent_status, set_s3_allocation, set_s4_environment
WriteDocument ==
    /\ pc \in {"store", "reset"}
    /\ \/ /\ \E status \in {"in_progress", "completed", "failed"} :
                task_doc' = <<[id |-> TaskId, description |-> TaskDescription,
                               status |-> status]>>
          /\ UNCHANGED <<metrics_doc, registry_doc, s3_doc, s4_doc, idx>>
       \/ /\ idx < MaxUpdates
          /\ metrics_doc' = record_s3_s4_conflict(metrics_doc)
          /\ idx' = idx + 1
          /\ UNCHANGED <<task_doc, registry_doc, s3_doc, s4_doc>>
       \/ /\ \E a \in AgentNames, busy \in BOOLEAN :
                registry_doc' =
                    update_agent_status(registry_doc, a,
                                        IF busy THEN "busy" ELSE "available",
                                        IF busy THEN TaskId ELSE "None")
          /\ UNCHANGED <<task_doc, metrics_doc, s3_doc, s4_doc, idx>>
       \/ /\ \E a \in AgentNames :
                s3_doc' = <<[task_id |-> TaskId, complexity |-> "medium",
                             selected_agents |-> <<a>>]>>
          /\ UNCHANGED <<task_doc, metrics_doc, registry_doc, s4_doc, idx>>
       \/ /\ \E d \in S4Docs : s4_doc' = <<d>>
          /\ UNCHANGED <<task_doc, metrics_doc, registry_doc, s3_doc, idx>>
    /\ pc' = "store"
    /\ cycle_result' = <<>>
    /\ UNCHANGED <<outcome, exc, current_task, log, clock, metrics, adaptations,
                   s4_result, s3_result, s1_results, audit_result, conflicts,
                   should_parallel, calls, inflight>>

\* every file but agent-registry.json removed
ResetState_KeepsRegistry ==
    /\ pc \in {"store", "reset"}
    /\ task_doc' = <<>> /\ metrics_doc' = <<>> /\ s3_doc' = <<>> /\ s4_doc' = <<>>
    /\ pc' = "reset"
    /\ cycle_result' = <<>>
    /\ UNCHANGED <<idx, outcome, exc, current_task, registry_doc, log, clock, metrics,
                   adaptations, s4_result, s3_result, s1_results, audit_result,
                   conflicts, should_parallel, calls, inflight>>

\* execution-log.jsonl unlinked with the five documents
ResetState_RemovesLog ==
    /\ pc \in {"store", "reset"}
    /\ task_doc' = <<>> /\ metrics_doc' = <<>> /\ registry_doc' = <<>>
    /\ s3_doc' = <<>> /\ s4_doc' = <<>>
    /\ log' = <<>>
    /\ pc' = "reset"
    /\ cycle_result' = <<>>
    /\ UNCHANGED <<idx, outcome, exc, current_task, clock, metrics, adaptations,
                   s4_result, s3_result, s1_results, audit_result, conflicts,
                   should_parallel, calls, inflight>>

\* reset_state: the five files unlinked, the execution log left alone
ResetState ==
    /\ pc \in {"store", "reset"}
    /\ task_doc' = <<>> /\ metrics_doc' = <<>> /\ registry_doc' = <<>>
    /\ s3_doc' = <<>> /\ s4_doc' = <<>>
    /\ pc' = "reset"
    /\ cycle_result' = <<>>
    /\ UNCHANGED <<idx, outcome, exc, current_task, log, clock, metrics, adaptations,
                   s4_result, s3_result, s1_results, audit_result, conflicts,
                   should_parallel, calls, inflight>>

\* one of the getters; get_agent_registry writes the default registry when
\* the file is absent
ReadDocument ==
    /\ pc \in {"store", "reset"}
    /\ LET seen == IF cycle_result = <<>> THEN Unread ELSE cycle_result[1]
       IN \E d \in Documents :
            /\ cycle_result' =
                 <<[seen EXCEPT ![d] =
                      <<CASE d = "current_task" -> task_doc
                          [] d = "viability_metrics" ->
                                <<get_viability_metrics(metrics_doc)>>
                          [] d = "agent_registry" ->
                                <<get_agent_registry(registry_doc)>>
                          [] d = "s3_allocation" -> s3_doc
                          [] d = "s4_environment" -> s4_doc>>]>>
            /\ registry_doc' = IF d = "agent_registry"
                               THEN <<get_agent_registry(registry_doc)>>
                               ELSE registry_doc
    /\ UNCHANGED <<pc, outcome, exc, current_task, task_doc, metrics_doc, s3_doc,
                   s4_doc, log, clock, metrics, adaptations, s4_result, s3_result,
                   s1_results, audit_result, conflicts, should_parallel, idx,
                   calls, inflight>>

NextReset == WriteDocument \/ ResetState \/ ReadDocument

SpecReset == InitReset /\ [][NextReset]_vars

(***************************************************************************)
(* execution_log.py and the hooks: execution-log.jsonl written through two *)
(* ExecutionLog objects and by the four hook scripts, cleared, queried,    *)
(* and left alone by reset_state.  calls tells for each line how it was    *)
(* appended and cycle_result is what a query of the log as it is returned. *)
(* The start is InitReset.                                                 *)
(***************************************************************************)
\* the session ids of the two ExecutionLog objects
LogSessions == {SessionId, "session-2"}

LogUnchanged ==
    UNCHANGED <<pc, outcome, exc, current_task, registry_doc, s3_doc, s4_doc,
                clock, metrics, adaptations, s4_result, s3_result, s1_results,
                audit_result, conflicts, should_parallel, inflight>>

\* ExecutionLog.append of an entry its caller created, lines 83-87
LogAppends ==
    /\ pc \in {"store", "reset"} /\ idx < MaxEntries
    /\ idx' = idx + 1
    /\ \E through \in LogSessions, task_id \in TaskIds,
          session_id \in {"session-9"} :
          LET entry == [event_type |-> "task_started", task_id |-> task_id,
                        agent |-> "None",
                        data |-> {<<"description", TaskDescription>>,
                                  <<"complexity", "unknown">>},
                        session_id |-> session_id]
          IN /\ log' = append(log, through, entry)
             /\ calls' = Append(calls, [through |-> through, entry |-> entry])
    /\ cycle_result' = <<>>
    /\ UNCHANGED <<task_doc, metrics_doc>> /\ LogUnchanged

\* update_metrics.py 51-83, log_action.py 22-35, log_system_agent.py 21-47,
\* session_complete.py 21-55: each writes its own line with json.dumps
HookAppends ==
    /\ pc \in {"store", "reset"} /\ idx < MaxEntries
    /\ idx' = idx + 1
    /\ \/ /\ \E agent_name \in HookAgentNames, status \in {"failed"} :
                /\ metrics_doc' = update_agent_metrics(metrics_doc, agent_name, status)
                /\ log' = Append(log, HookLogEntry(metrics_doc', agent_name, status))
          /\ UNCHANGED task_doc
       \/ /\ log' = Append(log, [event_type |-> "tool_used", tool_name |-> "Bash",
                                  input_preview |-> "ls", session_id |-> "unknown"])
          /\ UNCHANGED <<task_doc, metrics_doc>>
       \/ /\ log' = Append(log, [event_type |-> "system_agent_completed",
                                  agent |-> "system3-audit",
                                  system_level |-> "S3*-Audit",
                                  status |-> "completed"])
          /\ UNCHANGED <<task_doc, metrics_doc>>
       \/ /\ log' = Append(log, [event_type |-> "session_complete"])
          /\ task_doc' = IF task_doc # <<>>
                             /\ task_doc[1].status \in {"completed", "failed"}
                         THEN <<>> ELSE task_doc
          /\ UNCHANGED metrics_doc
    /\ calls' = Append(calls, [through |-> "hook"])
    /\ cycle_result' = <<>>
    /\ LogUnchanged

\* ExecutionLog.clear, lines 228-231
ClearLog ==
    /\ pc \in {"store", "reset"}
    /\ log' = <<>>
    /\ calls' = <<>>
    /\ cycle_result' = <<>>
    /\ UNCHANGED <<task_doc, metrics_doc, idx>> /\ LogUnchanged

\* read_all, read_session and read_task, lines 157-176
QueryLog ==
    /\ pc \in {"store", "reset"}
    /\ \/ cycle_result' = <<[query |-> "read_all", arg |-> "None",
                              result |-> read_all(log)]>>
       \/ \E session_id \in LogSessions :
             cycle_result' = <<[query |-> "read_session", arg |-> session_id,
                                result |-> read_session(log, session_id)]>>
       \/ \E task_id \in TaskIds :
             cycle_result' = <<[query |-> "read_task", arg |-> task_id,
                                result |-> read_task(log, task_id)]>>
    /\ UNCHANGED <<task_doc, metrics_doc, log, calls, idx>> /\ LogUnchanged

NextLog == LogAppends \/ HookAppends \/ ClearLog \/ QueryLog \/ ResetState

SpecLog == InitReset /\ [][NextLog]_vars

\* read_recent(count), lines 178-181
QueryRecent ==
    /\ pc \in {"store", "reset"}
    /\ \E count \in 0..(MaxEntries + 1) :
          cycle_result' = <<[query |-> "read_recent", arg |-> count,
                             result |-> read_recent(log, count)]>>
    /\ UNCHANGED <<task_doc, metrics_doc, log, calls, idx>> /\ LogUnchanged

NextRecent == LogAppends \/ HookAppends \/ ClearLog \/ QueryRecent

SpecRecent == InitReset /\ [][NextRecent]_vars

(***************************************************************************)
(* state_manager.py: _write_json and _read_json of viability-metrics.json  *)
(* by two processes.  pc is the writer's position, metrics the document it *)
(* is about to dump, calls the file as it was when the writer opened it    *)
(* and cycle_result what the reader's last get_viability_metrics returned. *)
(***************************************************************************)
\* the file after open(filepath, 'w') and before json.dump has finished
Truncated == <<[partial |-> TRUE]>>

\* None for a missing file and for one json.load rejects
_read_json(doc) == IF doc = Truncated THEN <<>> ELSE doc

InitWrite ==
    /\ pc = "idle"
    /\ metrics_doc = <<>>
    /\ metrics = <<>>
    /\ NotStarted

WriteUnchanged ==
    UNCHANGED <<outcome, exc, current_task, task_doc, registry_doc, s3_doc, s4_doc,
                log, clock, adaptations, s4_result, s3_result, s1_results,
                audit_result, conflicts, should_parallel, inflight>>

\* the read and the change of a record_* method, up to its
\* update_viability_metrics
WriterUpdates ==
    /\ pc = "idle" /\ idx < MaxUpdates
    /\ metrics' \in {record_s3_s4_conflict(_read_json(metrics_doc)),
                     record_oscillation(_read_json(metrics_doc))}
    /\ pc' = "open"
    /\ UNCHANGED <<metrics_doc, idx, calls, cycle_result>> /\ WriteUnchanged

\* _write_json, line 107: opening for writing empties the file
WriterOpens ==
    /\ pc = "open"
    /\ calls' = <<metrics_doc>>
    /\ metrics_doc' = Truncated
    /\ pc' = "dump"
    /\ UNCHANGED <<metrics, idx, cycle_result>> /\ WriteUnchanged

\* _write_json, lines 108-111: json.dump and the close
WriterDumps ==
    /\ pc = "dump"
    /\ metrics_doc' = metrics
    /\ calls' = <<>>
    /\ idx' = idx + 1
    /\ pc' = "idle"
    /\ UNCHANGED <<metrics, cycle_result>> /\ WriteUnchanged

\* get_viability_metrics in another process, with the document before and
\* after the write under way, if there is one
ReaderReads ==
    /\ cycle_result' =
          <<[value  |-> get_viability_metrics(_read_json(metrics_doc)),
             before |-> IF pc = "dump" THEN calls[1] ELSE metrics_doc,
             after  |-> IF pc = "dump" THEN metrics ELSE metrics_doc]>>
    /\ UNCHANGED <<pc, metrics_doc, metrics, idx, calls>> /\ WriteUnchanged

NextWrite == WriterUpdates \/ WriterOpens \/ WriterDumps \/ ReaderReads

SpecWrite == InitWrite /\ [][NextWrite]_vars

(***************************************************************************)
(* Two run_cycle processes and the update_metrics hook on one state        *)
(* directory.  pc, current_task and metrics are per process; metrics holds *)
(* the document a process has read and changed and not yet written.  Each  *)
(* _write_json is taken as one step here: its two halves are SpecWrite's.  *)
(***************************************************************************)
Processes == TaskIds \cup {"hook"}

InitConcurrent ==
    /\ pc = [p \in Processes |-> "idle"]
    /\ metrics_doc = <<>>
    /\ metrics = [p \in Processes |-> <<>>]
    /\ outcome = "none" /\ exc = "None"
    /\ current_task = [c \in TaskIds |-> <<>>]
    /\ task_doc = <<>> /\ registry_doc = <<>> /\ s3_doc = <<>> /\ s4_doc = <<>>
    /\ log = <<>> /\ clock = 1 /\ adaptations = <<>>
    /\ s4_result = NoS4Result /\ s3_result = NoS3Result /\ s1_results = <<>>
    /\ audit_result = NoAuditResult /\ conflicts = <<>>
    /\ should_parallel = FALSE /\ idx = 0 /\ calls = <<>> /\ inflight = "None"
    /\ cycle_result = <<>>

ConcurrentUnchanged ==
    UNCHANGED <<outcome, exc, registry_doc, s3_doc, s4_doc, clock, adaptations,
                s4_result, s3_result, s1_results, audit_result, conflicts,
                should_parallel, calls, inflight, cycle_result>>

\* run_cycle lines 92-100: the task record written and the start logged
CycleStarts ==
    /\ \E c \in TaskIds :
          /\ pc[c] = "idle"
          /\ LET task == [id |-> c, description |-> TaskDescription,
                          status |-> "in_progress"]
             IN /\ current_task' = [current_task EXCEPT ![c] = <<task>>]
                /\ task_doc' = <<task>>
          /\ log' = log_task_started(log, c, TaskDescription)
          /\ pc' = [pc EXCEPT ![c] = "conflict"]
    /\ UNCHANGED <<metrics_doc, metrics, idx>> /\ ConcurrentUnchanged

\* the get_viability_metrics and the change of record_s3_s4_conflict (lines
\* 192-193), when a conflict was detected, and of record_agent_result
\* (146-157)
CycleReadsMetrics ==
    /\ \E c \in TaskIds :
          \/ /\ pc[c] = "conflict"
             /\ pc' = [pc EXCEPT ![c] = "agent"]
             /\ UNCHANGED metrics
          \/ /\ pc[c] = "conflict"
             /\ metrics' = [metrics EXCEPT ![c] = record_s3_s4_conflict(metrics_doc)]
             /\ pc' = [pc EXCEPT ![c] = "conflict_write"]
          \/ /\ pc[c] = "agent"
             /\ \E success \in BOOLEAN :
                   metrics' = [metrics EXCEPT ![c] =
                                  record_agent_result(metrics_doc, "tester", success)]
             /\ pc' = [pc EXCEPT ![c] = "agent_write"]
    /\ UNCHANGED <<current_task, task_doc, metrics_doc, log, idx>>
    /\ ConcurrentUnchanged

\* the update_viability_metrics that ends each record_* method
CycleWritesMetrics ==
    /\ \E c \in TaskIds :
          /\ pc[c] \in {"conflict_write", "agent_write"}
          /\ metrics_doc' = metrics[c]
          /\ metrics' = [metrics EXCEPT ![c] = <<>>]
          /\ pc' = [pc EXCEPT ![c] = IF pc[c] = "conflict_write"
                                     THEN "agent" ELSE "finish"]
    /\ UNCHANGED <<current_task, task_doc, log, idx>> /\ ConcurrentUnchanged

\* run_cycle lines 153-157: the final status written and logged
CycleFinishes ==
    /\ \E c \in TaskIds, success \in BOOLEAN :
          /\ pc[c] = "finish"
          /\ LET task == [current_task[c][1] EXCEPT
                             !.status = IF success THEN "completed" ELSE "failed"]
             IN /\ current_task' = [current_task EXCEPT ![c] = <<task>>]
                /\ task_doc' = <<task>>
          /\ log' = log_task_completed(log, c, success, "")
          /\ pc' = [pc EXCEPT ![c] = "done"]
    /\ UNCHANGED <<metrics_doc, metrics, idx>> /\ ConcurrentUnchanged

\* hooks/update_metrics.py lines 53-69: load_metrics and the new error rate
HookLoads ==
    /\ pc["hook"] = "idle" /\ idx < MaxHookRuns
    /\ \E agent_name \in HookAgentNames, status \in HookStatuses :
          /\ metrics' = [metrics EXCEPT !["hook"] =
                            update_agent_metrics(metrics_doc, agent_name, status)]
          /\ inflight' = agent_name
          /\ outcome' = status
    /\ pc' = [pc EXCEPT !["hook"] = "save"]
    /\ UNCHANGED <<exc, current_task, task_doc, metrics_doc, registry_doc, s3_doc,
                   s4_doc, log, clock, adaptations, s4_result, s3_result,
                   s1_results, audit_result, conflicts, should_parallel, idx,
                   calls, cycle_result>>

\* hooks/update_metrics.py lines 71-83: save_metrics and the log line
HookSaves ==
    /\ pc["hook"] = "save"
    /\ metrics_doc' = metrics["hook"]
    /\ log' = Append(log, HookLogEntry(metrics["hook"], inflight, outcome))
    /\ metrics' = [metrics EXCEPT !["hook"] = <<>>]
    /\ inflight' = "None"
    /\ outcome' = "none"
    /\ idx' = idx + 1
    /\ pc' = [pc EXCEPT !["hook"] = "idle"]
    /\ UNCHANGED <<exc, current_task, task_doc, registry_doc, s3_doc, s4_doc,
                   clock, adaptations, s4_result, s3_result, s1_results,
                   audit_result, conflicts, should_parallel, calls, cycle_result>>

NextConcurrent ==
    \/ CycleStarts
    \/ CycleReadsMetrics
    \/ CycleWritesMetrics
    \/ CycleFinishes
    \/ HookLoads
    \/ HookSaves

SpecConcurrent == InitConcurrent /\ [][NextConcurrent]_vars

(***************************************************************************)
(* Two run_cycle processes with tasks of their own on one state directory, *)
(* followed through the operations phase.  pc, current_task and idx are    *)
(* per process; calls keeps, for each operations agent started, the cycle  *)
(* that started it and the description put in its prompt.                  *)
(***************************************************************************)
\* the task argument of the run_cycle call with task id c
DescriptionOf(c) == "task of " \o c

InitPrompts ==
    /\ pc = [c \in TaskIds |-> "idle"]
    /\ current_task = [c \in TaskIds |-> <<>>]
    /\ idx = [c \in TaskIds |-> 0]
    /\ metrics_doc = <<>> /\ metrics = <<>>
    /\ outcome = "none" /\ exc = "None"
    /\ task_doc = <<>> /\ registry_doc = <<>> /\ s3_doc = <<>> /\ s4_doc = <<>>
    /\ log = <<>> /\ clock = 1 /\ adaptations = <<>>
    /\ s4_result = NoS4Result /\ s3_result = NoS3Result /\ s1_results = <<>>
    /\ audit_result = NoAuditResult /\ conflicts = <<>>
    /\ should_parallel = FALSE /\ calls = <<>> /\ inflight = "None"
    /\ cycle_result = <<>>

PromptsUnchanged ==
    UNCHANGED <<outcome, exc, metrics_doc, metrics, registry_doc, s3_doc, s4_doc,
                clock, adaptations, s4_result, s3_result, s1_results,
                audit_result, conflicts, should_parallel, inflight, cycle_result>>

\* run_cycle lines 92-100: the task record written and the start logged
TaskStarts ==
    /\ \E c \in TaskIds :
          /\ pc[c] = "idle"
          /\ LET task == [id |-> c, description |-> DescriptionOf(c),
                          status |-> "in_progress"]
             IN /\ current_task' = [current_task EXCEPT ![c] = <<task>>]
                /\ task_doc' = <<task>>
          /\ log' = log_task_started(log, c, DescriptionOf(c))
          /\ pc' = [pc EXCEPT ![c] = "operations"]
    /\ UNCHANGED <<idx, calls>> /\ PromptsUnchanged

\* _invoke_s1_agent lines 328-331: the description of the prompt
PromptDescription(doc) == IF doc # <<>> THEN doc[1].description ELSE ""

\* _invoke_s1_agent up to its await, lines 328-349
AgentInvoked ==
    /\ \E c \in TaskIds :
          /\ pc[c] = "operations"
          /\ idx[c] < MaxAgents
          /\ log' = log_agent_invoked(log, "s1-tester", c, "")
          /\ calls' = Append(calls, [agent |-> "s1-tester", site |-> "agent",
                                     task_id |-> c,
                                     description |-> PromptDescription(task_doc)])
          /\ idx' = [idx EXCEPT ![c] = @ + 1]
          /\ pc' = [pc EXCEPT ![c] = "agent_wait"]
    /\ UNCHANGED <<current_task, task_doc>> /\ PromptsUnchanged

\* _invoke_s1_agent lines 349-353, then the next agent of the allocation or
\* the phases after operations
AgentReturns ==
    /\ \E c \in TaskIds, success \in BOOLEAN, more \in BOOLEAN :
          /\ pc[c] = "agent_wait"
          /\ log' = log_agent_completed(log, "s1-tester", c, success)
          /\ pc' = [pc EXCEPT ![c] = IF more /\ idx[c] < MaxAgents
                                     THEN "operations" ELSE "finish"]
    /\ UNCHANGED <<current_task, task_doc, idx, calls>> /\ PromptsUnchanged

\* run_cycle lines 153-157: the final status written and logged
TaskFinishes ==
    /\ \E c \in TaskIds, success \in BOOLEAN :
          /\ pc[c] = "finish"
          /\ LET task == [current_task[c][1] EXCEPT
                             !.status = IF success THEN "completed" ELSE "failed"]
             IN /\ current_task' = [current_task EXCEPT ![c] = <<task>>]
                /\ task_doc' = <<task>>
          /\ log' = log_task_completed(log, c, success, "")
          /\ pc' = [pc EXCEPT ![c] = "done"]
    /\ UNCHANGED <<idx, calls>> /\ PromptsUnchanged

NextPrompts ==
    \/ TaskStarts
    \/ AgentInvoked
    \/ AgentReturns
    \/ TaskFinishes

SpecPrompts == InitPrompts /\ [][NextPrompts]_vars

(***************************************************************************)
(* state_manager.py: the typed readers of the two collaborator documents.  *)
(* Of the fields of S3Allocation the model keeps task_id, complexity and   *)
(* selected_agents, of S4Environment task_id and recommended_approach      *)
(* (rec); parallel_execution and rec have defaults.                        *)
(***************************************************************************)
S3AllocationRequired == {"task_id", "complexity", "selected_agents"}
S3AllocationDefaulted == {"parallel_execution"}
S4EnvironmentRequired == {"task_id"}
S4EnvironmentDefaulted == {"rec"}

\* cls(**data) of a dataclass: TypeError for a missing required argument and
\* for an unexpected keyword argument
DataclassRaises(data, required, defaulted) ==
    ~(required \subseteq DOMAIN data /\ DOMAIN data \subseteq required \cup defaulted)

\* what a typed reader gives: None, the object, or the TypeError
TypedRead(doc, required, defaulted) ==
    LET data == _read_json(doc)
    IN IF data = <<>> THEN [raises |-> FALSE, value |-> <<>>]
       ELSE IF DataclassRaises(data[1], required, defaulted)
            THEN [raises |-> TRUE, value |-> <<>>]
            ELSE [raises |-> FALSE, value |-> data]

\* lines 271-276
get_s3_allocation(doc) == TypedRead(doc, S3AllocationRequired, S3AllocationDefaulted)
\* lines 283-288
get_s4_environment(doc) == TypedRead(doc, S4EnvironmentRequired, S4EnvironmentDefaulted)

(***************************************************************************)
(* vsm_loop.py: run_cycle, one action per stretch between two awaits.      *)
(***************************************************************************)
\* _invoke_agent starts the collaborator's process; the record keeps the call
\* site, the process that was running when this one was started, and later
\* what the collaborator answered
Invoke(agent, site) ==
    /\ calls' = Append(calls, [agent |-> agent, site |-> site,
                               during |-> inflight, output |-> "pending"])
    /\ inflight' = agent

\* _invoke_agent returns: the process has exited
Returned(output) ==
    /\ calls' = [calls EXCEPT ![Len(calls)].output = output]
    /\ inflight' = "None"

\* lines 88-100, before the try block
StartCycle ==
    /\ pc = "idle"
    /\ LET task == [id |-> TaskId, description |-> TaskDescription,
                    status |-> "in_progress"]
       IN /\ current_task' = <<task>>
          /\ task_doc' = <<task>>
    /\ log' = log_task_started(log, TaskId, TaskDescription)
    /\ pc' = "adapt"
    /\ UNCHANGED <<outcome, exc, metrics_doc, registry_doc, s3_doc, s4_doc, clock,
                   metrics, adaptations, s4_result, s3_result,
                   s1_results, audit_result, conflicts, should_parallel, idx,
                   calls, inflight, cycle_result>>

\* lines 103-109
CheckAdaptations ==
    /\ pc = "adapt"
    /\ LET m == get_viability_metrics(metrics_doc)
           r == apply_adaptations(metrics_doc, analyze_metrics(m), clock)
       IN /\ metrics' = <<m>>
          /\ adaptations' = r.list
          /\ metrics_doc' = r.doc
          /\ clock' = r.clock
          /\ log' = LogAdaptations(log, r.list)
    /\ pc' = "s4_call"
    /\ UNCHANGED <<outcome, exc, current_task, task_doc, registry_doc, s3_doc,
                   s4_doc, s4_result, s3_result, s1_results,
                   audit_result, conflicts, should_parallel, idx, calls, inflight,
                   cycle_result>>

\* _invoke_s4 up to its await
CallS4 ==
    /\ pc = "s4_call"
    /\ log' = log_agent_invoked(log, "system4-strategy", TaskId, TaskDescription)
    /\ Invoke("system4-strategy", "intelligence")
    /\ pc' = "s4_wait"
    /\ UNCHANGED <<outcome, exc, current_task, task_doc, metrics_doc, registry_doc,
                   s3_doc, s4_doc, clock, metrics, adaptations,
                   s4_result, s3_result, s1_results, audit_result, conflicts,
                   should_parallel, idx, cycle_result>>

\* the control phase left out
AfterIntelligence_SkipsControl == "s2_call"

\* line 115 follows line 112
AfterIntelligence == "s3_call"

\* the collaborator has written s4-environment.json or not; lines 200-209
ReturnS4 ==
    /\ pc = "s4_wait"
    /\ \E doc \in {s4_doc} \cup {<<d>> : d \in S4Docs} :
        LET s4_env == get_s4_environment(doc)
        IN /\ ~s4_env.raises
           /\ s4_doc' = doc
           /\ s4_result' = IF s4_env.value # <<>>
                           THEN [from_doc |-> TRUE, rec |-> s4_env.value[1].rec]
                           ELSE NoS4Result
    /\ Returned("returned")
    /\ pc' = AfterIntelligence
    /\ UNCHANGED <<outcome, exc, current_task, task_doc, metrics_doc, registry_doc,
                   s3_doc, log, clock, metrics, adaptations, s3_result,
                   s1_results, audit_result, conflicts, should_parallel, idx,
                   cycle_result>>

\* _invoke_s3 up to its await, at line 115 or at the re-plan of line 124
InvokeS3(at, site, wait) ==
    /\ pc = at
    /\ log' = log_agent_invoked(log, "system3-control", TaskId, "")
    /\ Invoke("system3-control", site)
    /\ pc' = wait
    /\ UNCHANGED <<outcome, exc, current_task, task_doc, metrics_doc, registry_doc,
                   s3_doc, s4_doc, clock, metrics, adaptations,
                   s4_result, s3_result, s1_results, audit_result, conflicts,
                   should_parallel, idx, cycle_result>>

CallS3 == InvokeS3("s3_call", "control", "s3_wait")
CallReplan == InvokeS3("replan_call", "replan", "replan_wait")

\* the collaborator has written s3-allocations.json or not; lines 246-254
S3Returns(at) ==
    /\ pc = at
    /\ \E doc \in {s3_doc} \cup {<<d>> : d \in S3Docs} :
        LET allocation == get_s3_allocation(doc)
        IN /\ ~allocation.raises
           /\ s3_doc' = doc
           /\ s3_result' = IF allocation.value # <<>>
                           THEN [from_doc |-> TRUE,
                                 complexity |-> allocation.value[1].complexity,
                                 selected_agents |-> allocation.value[1].selected_agents]
                           ELSE NoS3Result
    /\ Returned("returned")
    /\ UNCHANGED <<outcome, exc, current_task, task_doc, metrics_doc, registry_doc,
                   s4_doc, log, clock, metrics, adaptations, s4_result,
                   s1_results, audit_result, conflicts, should_parallel, idx,
                   cycle_result>>

\* line 118
AfterControl ==
    IF should_require_s5_approval(get_active_adaptations(metrics_doc))
    THEN "approval_call" ELSE "s2_call"

ReturnS3 == S3Returns("s3_wait") /\ pc' = AfterControl
\* approval asked for again after the re-plan
AfterReplan_AsksAgain == AfterControl

\* line 127 follows line 124
AfterReplan == "s2_call"

ReturnReplan == S3Returns("replan_wait") /\ pc' = AfterReplan

\* _invoke_s5_for_approval up to its await
CallApproval ==
    /\ pc = "approval_call"
    /\ log' = log_agent_invoked(log, "system5-policy", TaskId, "")
    /\ Invoke("system5-policy", "approval")
    /\ pc' = "approval_wait"
    /\ UNCHANGED <<outcome, exc, current_task, task_doc, metrics_doc, registry_doc,
                   s3_doc, s4_doc, clock, metrics, adaptations,
                   s4_result, s3_result, s1_results, audit_result, conflicts,
                   should_parallel, idx, cycle_result>>

\* lines 419-429: what _invoke_s5_for_approval returns for an output
Approved(output) == output # "rejected"

\* lines 419-429 and 122-124
ReturnApproval ==
    /\ pc = "approval_wait"
    /\ \E output \in ApprovalOutputs :
        /\ log' = IF output = "not json" THEN log
                  ELSE log_policy_decision(log, TaskId,
                           IF Approved(output) THEN "approved" ELSE "rejected")
        /\ pc' = IF Approved(output) THEN "s2_call" ELSE "replan_call"
        /\ Returned(output)
    /\ UNCHANGED <<outcome, exc, current_task, task_doc, metrics_doc, registry_doc,
                   s3_doc, s4_doc, clock, metrics, adaptations,
                   s4_result, s3_result, s1_results, audit_result, conflicts,
                   should_parallel, idx, cycle_result>>

\* _invoke_s2 up to its await
CallS2 ==
    /\ pc = "s2_call"
    /\ log' = log_agent_invoked(log, "system2-coordination", TaskId, "")
    /\ Invoke("system2-coordination", "coordination")
    /\ pc' = "s2_wait"
    /\ UNCHANGED <<outcome, exc, current_task, task_doc, metrics_doc, registry_doc,
                   s3_doc, s4_doc, clock, metrics, adaptations,
                   s4_result, s3_result, s1_results, audit_result, conflicts,
                   should_parallel, idx, cycle_result>>

\* s3_allocation.get("selected_agents", [])
SelectedAgents(s3) == IF s3.from_doc THEN s3.selected_agents ELSE <<>>

\* the loop left at the first failed result
S1Pc_StopsOnFailure(i) ==
    IF \/ i > Len(SelectedAgents(s3_result))
       \/ (s1_results' # <<>> /\ ~s1_results'[Len(s1_results')].success)
    THEN "audit_call"
    ELSE IF should_add_review_step(get_active_adaptations(metrics_doc),
                                   SelectedAgents(s3_result)[i])
         THEN "review_call"
         ELSE "agent_call"

\* the loop of _execute_s1_agents at position i: lines 298-302, or its end
S1Pc(i) ==
    IF i > Len(SelectedAgents(s3_result)) THEN "audit_call"
    ELSE IF should_add_review_step(get_active_adaptations(metrics_doc),
                                   SelectedAgents(s3_result)[i])
         THEN "review_call"
         ELSE "agent_call"

\* _invoke_s2 returns; _execute_s1_agents lines 284-302
ReturnS2 ==
    /\ pc = "s2_wait"
    /\ Returned("returned")
    /\ s1_results' = <<>>
    /\ should_parallel' = should_parallelize(get_active_adaptations(metrics_doc))
    /\ idx' = 1
    /\ pc' = S1Pc(1)
    /\ UNCHANGED <<outcome, exc, current_task, task_doc, metrics_doc, registry_doc,
                   s3_doc, s4_doc, log, clock, metrics, adaptations,
                   s4_result, s3_result, audit_result, conflicts, cycle_result>>

\* _invoke_s1_agent up to its await
InvokeS1(at, agent, site, wait) ==
    /\ pc = at
    /\ log' = log_agent_invoked(log, agent, TaskId, "")
    /\ Invoke(agent, site)
    /\ pc' = wait
    /\ UNCHANGED <<outcome, exc, current_task, task_doc, metrics_doc, registry_doc,
                   s3_doc, s4_doc, clock, metrics, adaptations,
                   s4_result, s3_result, s1_results, audit_result, conflicts,
                   should_parallel, idx, cycle_result>>

S1Name(agent_name) == "s1-" \o agent_name

\* lines 303-306
CallReview == InvokeS1("review_call", "s1-reviewer", "review", "review_wait")

\* lines 311-313
CallAgent ==
    InvokeS1("agent_call", S1Name(SelectedAgents(s3_result)[idx]), "agent",
             "agent_wait")

\* results kept in the order of completion, the latest first
RecordResult_LatestFirst(results, result) == <<result>> \o results

\* results.append(result), lines 307 and 314
RecordResult(results, result) == Append(results, result)

\* _invoke_s1_agent lines 349-353 and line 307
ReturnReview ==
    /\ pc = "review_wait"
    /\ \E success \in BOOLEAN :
        /\ log' = log_agent_completed(log, "s1-reviewer", TaskId, success)
        /\ s1_results' = RecordResult(s1_results,
                                      [agent |-> "s1-reviewer", success |-> success])
        /\ Returned(BoolStr(success))
    /\ pc' = "agent_call"
    /\ UNCHANGED <<outcome, exc, current_task, task_doc, metrics_doc, registry_doc,
                   s3_doc, s4_doc, clock, metrics, adaptations,
                   s4_result, s3_result, audit_result, conflicts, should_parallel,
                   idx, cycle_result>>

\* the agent's result recorded in the metrics as soon as it comes back
ReturnAgent_RecordsAtOnce ==
    /\ pc = "agent_wait"
    /\ LET agent_name == SelectedAgents(s3_result)[idx]
       IN /\ \E success \in BOOLEAN :
               /\ log' = log_agent_completed(log, S1Name(agent_name), TaskId, success)
               /\ s1_results' = Append(s1_results, [agent |-> S1Name(agent_name),
                                                    success |-> success])
               /\ metrics_doc' = record_agent_result(metrics_doc, agent_name, success)
               /\ Returned(BoolStr(success))
          /\ registry_doc' = update_agent_status(registry_doc, agent_name,
                                                 "available", "None")
    /\ idx' = idx + 1
    /\ pc' = S1Pc(idx + 1)
    /\ UNCHANGED <<outcome, exc, current_task, task_doc, s3_doc,
                   s4_doc, clock, metrics, adaptations, s4_result,
                   s3_result, audit_result, conflicts, should_parallel,
                   cycle_result>>

\* _invoke_s1_agent lines 349-353 and lines 314-321, then the loop's next turn
ReturnAgent ==
    /\ pc = "agent_wait"
    /\ LET agent_name == SelectedAgents(s3_result)[idx]
       IN /\ \E success \in BOOLEAN :
               /\ log' = log_agent_completed(log, S1Name(agent_name), TaskId, success)
               /\ s1_results' = RecordResult(s1_results,
                                             [agent |-> S1Name(agent_name),
                                              success |-> success])
               /\ Returned(BoolStr(success))
          /\ registry_doc' = update_agent_status(registry_doc, agent_name,
                                                 "available", "None")
    /\ idx' = idx + 1
    /\ pc' = S1Pc(idx + 1)
    /\ UNCHANGED <<outcome, exc, current_task, task_doc, metrics_doc, s3_doc,
                   s4_doc, clock, metrics, adaptations, s4_result,
                   s3_result, audit_result, conflicts, should_parallel,
                   cycle_result>>

\* _invoke_s3_star up to its await
CallAudit ==
    /\ pc = "audit_call"
    /\ log' = log_agent_invoked(log, "system3-audit", TaskId, "")
    /\ Invoke("system3-audit", "audit")
    /\ pc' = "audit_wait"
    /\ UNCHANGED <<outcome, exc, current_task, task_doc, metrics_doc, registry_doc,
                   s3_doc, s4_doc, clock, metrics, adaptations,
                   s4_result, s3_result, s1_results, audit_result, conflicts,
                   should_parallel, idx, cycle_result>>

\* the fallback taken to be a pass
ParseAudit_FallbackPasses(output) ==
    IF output.json
    THEN [from_json |-> TRUE, audit_passed |-> output.audit_passed,
          oscillation |-> output.oscillation]
    ELSE [from_json |-> FALSE, audit_passed |-> TRUE, oscillation |-> FALSE]

\* lines 385-393: the dict _invoke_s3_star returns
ParseAudit(output) ==
    IF output.json
    THEN [from_json |-> TRUE, audit_passed |-> output.audit_passed,
          oscillation |-> output.oscillation]
    ELSE [from_json |-> FALSE, audit_passed |-> output.success,
          oscillation |-> FALSE]

\* lines 472-478
S3Complexity(s3) == IF s3.from_doc THEN s3.complexity ELSE "medium"
S4Complexity(s4) ==
    IF s4.rec.is_dict /\ s4.rec.ca # "" THEN s4.rec.ca ELSE "medium"

\* lines 480-485: the list _detect_conflicts returns
DetectedConflicts(s3, s4) ==
    IF S3Complexity(s3) # S4Complexity(s4)
    THEN <<[type |-> "complexity_disagreement",
            s3_position |-> "Assessed as " \o S3Complexity(s3),
            s4_position |-> "Recommended as " \o S4Complexity(s4)]>>
    ELSE <<>>

\* _invoke_s3_star returns (lines 385-393), then _detect_conflicts (line 140)
ReturnAudit ==
    /\ pc = "audit_wait"
    /\ \E output \in AuditOutputs :
        /\ audit_result' = ParseAudit(output)
        /\ log' = IF output.json THEN log_audit(log, TaskId, output.audit_passed)
                  ELSE log
        /\ Returned(BoolStr(output.success))
    /\ conflicts' = DetectedConflicts(s3_result, s4_result)
    /\ metrics_doc' = IF conflicts' # <<>> THEN record_s3_s4_conflict(metrics_doc)
                      ELSE metrics_doc
    /\ pc' = IF conflicts' # <<>> THEN "resolution_call" ELSE "finish"
    /\ UNCHANGED <<outcome, exc, current_task, task_doc, registry_doc, s3_doc,
                   s4_doc, clock, metrics, adaptations, s4_result,
                   s3_result, s1_results, should_parallel, idx, cycle_result>>

\* _invoke_s5_for_conflict up to its await
CallResolution ==
    /\ pc = "resolution_call"
    /\ log' = log_agent_invoked(log, "system5-policy", TaskId, "")
    /\ Invoke("system5-policy", "resolution")
    /\ pc' = "resolution_wait"
    /\ UNCHANGED <<outcome, exc, current_task, task_doc, metrics_doc, registry_doc,
                   s3_doc, s4_doc, clock, metrics, adaptations,
                   s4_result, s3_result, s1_results, audit_result, conflicts,
                   should_parallel, idx, cycle_result>>

RECURSIVE LogConflicts(_, _)
LogConflicts(l, cs) ==
    IF cs = <<>> THEN l
    ELSE LogConflicts(log_conflict(l, TaskId, Head(cs).s3_position,
                                   Head(cs).s4_position), Tail(cs))

\* lines 456-465 and 145-148
ReturnResolution ==
    /\ pc = "resolution_wait"
    /\ \E output \in ResolutionOutputs :
        log' = LogConflicts(IF output = "json"
                            THEN log_policy_decision(log, TaskId, "resolved")
                            ELSE log, conflicts)
    /\ Returned("returned")
    /\ pc' = "finish"
    /\ UNCHANGED <<outcome, exc, current_task, task_doc, metrics_doc, registry_doc,
                   s3_doc, s4_doc, clock, metrics, adaptations,
                   s4_result, s3_result, s1_results, audit_result, conflicts,
                   should_parallel, idx, cycle_result>>

\* result.agent.replace("s1-", "")
StripS1(agent) ==
    IF \E a \in RegistryAgents \cup AgentNames : agent = S1Name(a)
    THEN CHOOSE a \in RegistryAgents \cup AgentNames : agent = S1Name(a)
    ELSE agent

RECURSIVE RecordAgentResults(_, _)
RecordAgentResults(doc, results) ==
    IF results = <<>> THEN doc
    ELSE RecordAgentResults(
             record_agent_result(doc, StripS1(Head(results).agent),
                                 Head(results).success),
             Tail(results))

AllSucceeded(results) == \A i \in 1..Len(results) : results[i].success

\* the oscillation rate averaged like the other rates: a cycle without
\* oscillation counts as 0
UpdateMetrics_OscillationDecays(doc, results, audit) ==
    LET d1 == RecordAgentResults(doc, results)
        d2 == record_audit_result(d1, audit.audit_passed)
        d3 == record_task_completion(d2, AllSucceeded(results) /\ audit.audit_passed)
        m == get_viability_metrics(d3)
    IN IF audit.oscillation THEN record_oscillation(d3)
       ELSE <<[m EXCEPT !.oscillation_rate = EMA(ALPHA_OSCILLATION, 0, @)]>>

\* _update_metrics, lines 490-508
UpdateMetrics(doc, results, audit) ==
    LET d1 == RecordAgentResults(doc, results)
        d2 == record_audit_result(d1, audit.audit_passed)
        d3 == record_task_completion(d2, AllSucceeded(results) /\ audit.audit_passed)
    IN IF audit.oscillation THEN record_oscillation(d3) ELSE d3

\* line 154
CycleSuccess(results, audit) == audit.audit_passed

\* lines 150-168
Finish ==
    /\ pc = "finish"
    /\ metrics_doc' = UpdateMetrics(metrics_doc, s1_results, audit_result)
    /\ LET success == CycleSuccess(s1_results, audit_result)
           task == [current_task[1] EXCEPT
                       !.status = IF success THEN "completed" ELSE "failed"]
       IN /\ current_task' = <<task>>
          /\ task_doc' = <<task>>
          /\ log' = log_task_completed(log, TaskId, success, "")
          /\ cycle_result' =
                <<[task_id |-> TaskId, success |-> success,
                   agents_invoked |-> [i \in 1..Len(s1_results) |-> s1_results[i].agent],
                   audit_passed |-> audit_result.audit_passed,
                   conflicts |-> conflicts, adaptations |-> adaptations,
                   s1_results |-> s1_results]>>
    /\ outcome' = "returned"
    /\ pc' = "done"
    /\ UNCHANGED <<exc, registry_doc, s3_doc, s4_doc, clock, metrics,
                   adaptations, s4_result, s3_result, s1_results, audit_result,
                   conflicts, should_parallel, idx, calls, inflight>>

\* the stretches of the try block, lines 102-168
TryPcs ==
    {"adapt", "s4_call", "s3_call", "approval_call", "replan_call", "s2_call",
     "review_call", "agent_call", "audit_call", "resolution_call", "finish"}

\* str(e) of the exception a stretch raises: the text tells where it failed
ExcText(at) == "failure in " \o at
ExcTexts == {ExcText(at) : at \in TryPcs}

\* the except clause without summary=str(e)
HandleException_NoSummary(e) ==
    LET task == [current_task[1] EXCEPT !.status = "failed"]
    IN /\ current_task' = <<task>>
       /\ task_doc' = <<task>>
       /\ log' = log_task_completed(log, TaskId, FALSE, "")
       /\ exc' = e
       /\ outcome' = "raised"

\* lines 170-176: what the except clause does with the exception
HandleException(e) ==
    LET task == [current_task[1] EXCEPT !.status = "failed"]
    IN /\ current_task' = <<task>>
       /\ task_doc' = <<task>>
       /\ log' = log_task_completed(log, TaskId, FALSE, e)
       /\ exc' = e
       /\ outcome' = "raised"

\* the stretch that is about to run raises e
Raise ==
    /\ pc \in TryPcs
    /\ HandleException(ExcText(pc))
    /\ pc' = "done"
    /\ UNCHANGED <<metrics_doc, registry_doc, s3_doc, s4_doc, clock, metrics, adaptations, s4_result, s3_result, s1_results,
                   audit_result, conflicts, should_parallel, idx, calls, inflight,
                   cycle_result>>

Next ==
    \/ StartCycle
    \/ CheckAdaptations
    \/ CallS4
    \/ ReturnS4
    \/ CallS3
    \/ ReturnS3
    \/ CallApproval
    \/ ReturnApproval
    \/ CallReplan
    \/ ReturnReplan
    \/ CallS2
    \/ ReturnS2
    \/ CallReview
    \/ ReturnReview
    \/ CallAgent
    \/ ReturnAgent
    \/ CallAudit
    \/ ReturnAudit
    \/ CallResolution
    \/ ReturnResolution
    \/ Finish
    \/ Raise

Spec == Init /\ [][Next]_vars

\* the steps run_cycle takes by itself; the others are the await of
\* process.communicate() in _invoke_agent (lines 544-549) coming back, which
\* happens when the collaborator's process exits since no timeout is set
ControllerSteps ==
    \/ StartCycle
    \/ CheckAdaptations
    \/ CallS4
    \/ CallS3
    \/ CallApproval
    \/ CallReplan
    \/ CallS2
    \/ CallReview
    \/ CallAgent
    \/ CallAudit
    \/ CallResolution
    \/ Finish

\* the event loop keeps running the coroutine; a collaborator may never exit
SpecLive == Init /\ [][Next]_vars /\ WF_vars(ControllerSteps)

(***************************************************************************)
(* run_cycle of task TaskId in a state directory where the cycle of an     *)
(* earlier task has left its documents, with collaborators that may write  *)
(* a document the typed readers cannot interpret.                          *)
(***************************************************************************)
\* s3-allocations.json and s4-environment.json as the cycle of "t2" left them
EarlierS3Doc ==
    <<[task_id |-> "t2", complexity |-> "simple", selected_agents |-> <<"code-writer">>]>>
EarlierS4Doc ==
    <<[task_id |-> "t2", rec |-> [is_dict |-> TRUE, ca |-> "simple"]]>>

\* not JSON; JSON without selected_agents; JSON with the execution_mode key
\* the prompt of line 236 asks for
UninterpretableS3Docs ==
    {Truncated,
     <<[task_id |-> TaskId, complexity |-> "simple"]>>,
     <<[task_id |-> TaskId, complexity |-> "simple", selected_agents |-> <<"tester">>,
        execution_mode |-> "sequential"]>>}

\* not JSON; JSON without task_id; JSON with the task_analysis key the prompt
\* of line 189 asks for
UninterpretableS4Docs ==
    {Truncated,
     <<[rec |-> [is_dict |-> FALSE, ca |-> ""]]>>,
     <<[task_id |-> TaskId, rec |-> [is_dict |-> FALSE, ca |-> ""],
        task_analysis |-> "summary"]>>}

\* str(e) of the TypeError the constructor raises
TypeErrorText(class) == class \o ".__init__() got unexpected or missing arguments"

InitDocs ==
    /\ pc = "idle"
    /\ metrics_doc = MetricsWith(<<Err("tester", RateTwoFailures)>>,
                                 POLICY_CONFLICT_THRESHOLD + 1, <<>>)
    /\ metrics = <<>>
    /\ outcome = "none"
    /\ exc = "None"
    /\ current_task = <<>>
    /\ task_doc = <<>>
    /\ registry_doc = <<>>
    /\ s3_doc \in {<<>>, EarlierS3Doc}
    /\ s4_doc \in {<<>>, EarlierS4Doc}
    /\ log = <<>>
    /\ clock = 1
    /\ adaptations = <<>>
    /\ s4_result = NoS4Result
    /\ s3_result = NoS3Result
    /\ s1_results = <<>>
    /\ audit_result = NoAuditResult
    /\ conflicts = <<>>
    /\ should_parallel = FALSE
    /\ idx = 0
    /\ calls = <<>>
    /\ inflight = "None"
    /\ cycle_result = <<>>

\* _invoke_s4 returns and the collaborator has written such a document:
\* lines 201-209, and the except clause of run_cycle for the TypeError
ReturnS4Uninterpretable ==
    /\ pc = "s4_wait"
    /\ \E doc \in UninterpretableS4Docs :
        LET s4_env == get_s4_environment(doc)
        IN /\ s4_doc' = doc
           /\ IF s4_env.raises
              THEN /\ HandleException(TypeErrorText("S4Environment"))
                   /\ pc' = "done"
                   /\ UNCHANGED s4_result
              ELSE /\ s4_result' = NoS4Result
                   /\ pc' = AfterIntelligence
                   /\ UNCHANGED <<outcome, exc, current_task, task_doc, log>>
    /\ Returned("returned")
    /\ UNCHANGED <<metrics_doc, registry_doc, s3_doc, clock, metrics, adaptations,
                   s3_result, s1_results, audit_result, conflicts, should_parallel,
                   idx, cycle_result>>

\* _invoke_s3 returns, at line 115 or at the re-plan of line 124, and the
\* collaborator has written such a document: lines 247-254
ReturnS3Uninterpretable ==
    /\ pc \in {"s3_wait", "replan_wait"}
    /\ \E doc \in UninterpretableS3Docs :
        LET allocation == get_s3_allocation(doc)
        IN /\ s3_doc' = doc
           /\ IF allocation.raises
              THEN /\ HandleException(TypeErrorText("S3Allocation"))
                   /\ pc' = "done"
                   /\ UNCHANGED s3_result
              ELSE /\ s3_result' = NoS3Result
                   /\ pc' = IF pc = "s3_wait" THEN AfterControl ELSE AfterReplan
                   /\ UNCHANGED <<outcome, exc, current_task, task_doc, log>>
    /\ Returned("returned")
    /\ UNCHANGED <<metrics_doc, registry_doc, s4_doc, clock, metrics, adaptations,
                   s4_result, s1_results, audit_result, conflicts, should_parallel,
                   idx, cycle_result>>

NextDocs == Next \/ ReturnS4Uninterpretable \/ ReturnS3Uninterpretable

SpecDocs == InitDocs /\ [][NextDocs]_vars

(***************************************************************************)
(* Cycles one after the other on one state directory, from the state of a  *)
(* fresh directory, with runs of the update_metrics.py hook between their  *)
(* steps.  The steps of run_cycle are those of Spec; the intelligence and  *)
(* control phases, which write no metrics, are one step that leaves the    *)
(* allocation.  The log counts the cycles and the hook runs.               *)
(***************************************************************************)
CyclesStarted == Cardinality({i \in 1..Len(log) : log[i].event_type = "task_started"})
HookRunsDone == Cardinality({i \in 1..Len(log) : "status" \in DOMAIN log[i]})

InitCycles ==
    /\ pc = "idle"
    /\ metrics_doc = <<>>
    /\ metrics = <<>>
    /\ NotStarted

\* the allocation the control collaborator writes in these cycles
CycleAllocation ==
    [task_id |-> TaskId, complexity |-> "medium", selected_agents |-> <<"tester">>]

\* lines 112-118 as one step: the intelligence collaborator writes no
\* document, the control collaborator writes CycleAllocation, and line 118
\* asks for no approval
PhasesBeforeCoordination ==
    /\ pc = "s4_call"
    /\ ~should_require_s5_approval(get_active_adaptations(metrics_doc))
    /\ s4_result' = NoS4Result
    /\ s3_doc' = <<CycleAllocation>>
    /\ s3_result' = [from_doc |-> TRUE,
                     complexity |-> CycleAllocation.complexity,
                     selected_agents |-> CycleAllocation.selected_agents]
    /\ log' = log_agent_invoked(
                  log_agent_invoked(log, "system4-strategy", TaskId, TaskDescription),
                  "system3-control", TaskId, "")
    /\ calls' = calls \o
                <<[agent |-> "system4-strategy", site |-> "intelligence",
                   during |-> "None", output |-> "returned"],
                  [agent |-> "system3-control", site |-> "control",
                   during |-> "None", output |-> "returned"]>>
    /\ pc' = "s2_call"
    /\ UNCHANGED <<outcome, exc, current_task, task_doc, metrics_doc, registry_doc,
                   s4_doc, clock, metrics, adaptations,
                   s1_results, audit_result, conflicts, should_parallel, idx,
                   inflight, cycle_result>>

\* run_cycle is called again: a new VSMLoop over the files the last one left
NextCycle ==
    /\ pc = "done"
    /\ CyclesStarted < MaxCycles
    /\ pc' = "idle"
    /\ outcome' = "none"
    /\ exc' = "None"
    /\ current_task' = <<>>
    /\ metrics' = <<>>
    /\ adaptations' = <<>>
    /\ s4_result' = NoS4Result
    /\ s3_result' = NoS3Result
    /\ s1_results' = <<>>
    /\ audit_result' = NoAuditResult
    /\ conflicts' = <<>>
    /\ should_parallel' = FALSE
    /\ idx' = 0
    /\ calls' = <<>>
    /\ inflight' = "None"
    /\ cycle_result' = <<>>
    /\ UNCHANGED <<task_doc, metrics_doc, registry_doc, s3_doc, s4_doc, log, clock>>

\* update_metrics.py <agent> <status>, lines 51-83, run as the operations
\* agent completes
HookRuns ==
    /\ pc = "agent_wait"
    /\ HookRunsDone < MaxHookRuns
    /\ \E status \in HookStatuses :
          /\ metrics_doc' = update_agent_metrics(metrics_doc, "s1-tester", status)
          /\ log' = Append(log, HookLogEntry(metrics_doc', "s1-tester", status))
    /\ UNCHANGED <<pc, outcome, exc, current_task, task_doc, registry_doc, s3_doc,
                   s4_doc, clock, metrics, adaptations, s4_result, s3_result,
                   s1_results, audit_result, conflicts, should_parallel, idx,
                   calls, inflight, cycle_result>>

\* lines 170-176 reached from the operations phase, before _update_metrics
CycleAborts == pc = "agent_call" /\ Raise

\* _invoke_s3_star returns from a collaborator that answered in JSON
AuditAnswers == ReturnAudit /\ audit_result'.from_json

NextCycles ==
    \/ StartCycle
    \/ CheckAdaptations
    \/ PhasesBeforeCoordination
    \/ CallS2
    \/ ReturnS2
    \/ CallReview
    \/ ReturnReview
    \/ CallAgent
    \/ ReturnAgent
    \/ CallAudit
    \/ AuditAnswers
    \/ Finish
    \/ CycleAborts
    \/ NextCycle
    \/ HookRuns

SpecCycles == InitCycles /\ [][NextCycles]_vars

(***************************************************************************)
(* complexity_analyzer.py.  A description is what the patterns find in it: *)
(* how many patterns of each tier match, the domains in the order of       *)
(* DOMAIN_PATTERNS, the scope _detect_scope returns and whether \btest\b   *)
(* and \breview\b|\bquality\b match.  A hint is the tier words its lower   *)
(* case contains; None and "" are not given.  Numbers are exact rationals. *)
(***************************************************************************)
SIMPLE == "simple"
MEDIUM == "medium"
COMPLEX == "complex"
Complexity == {SIMPLE, MEDIUM, COMPLEX}

RAdd(r, s) == Rat(r[1] * s[2] + s[1] * r[2], r[2] * s[2])
RSub(r, s) == Rat(r[1] * s[2] - s[1] * r[2], r[2] * s[2])
RHalf(r) == Rat(r[1], 2 * r[2])
RMin(r, s) == IF RLt(s, r) THEN s ELSE r

RECURSIVE SumRates(_)
SumRates(errs) ==
    IF errs = <<>> THEN RZero ELSE RAdd(Head(errs).rate, SumRates(Tail(errs)))

\* lines 119-142; metrics is <<>> for None and for {}
_calculate_threshold_adjustment(m) ==
    IF m = <<>> THEN RZero
    ELSE LET n == IF Len(m[1].agent_errors) > 1 THEN Len(m[1].agent_errors) ELSE 1
             total == SumRates(m[1].agent_errors)
             avg_error == Rat(total[1], total[2] * n)
             a1 == IF RGt(avg_error, <<1, 5>>) THEN <<-3, 20>> ELSE RZero
         IN IF RGt(m[1].oscillation_rate, <<3, 20>>)
            THEN RSub(a1, <<1, 10>>) ELSE a1

\* lines 229-235, of the number of patterns that match
_calculate_keyword_score(matches) == RMin(Rat(matches, 4), ROne)

\* lines 290-329: the agents, their types and parallel_possible
SuggestsFor(complexity, description, domains) ==
    IF complexity = SIMPLE
    THEN [agents |-> <<"generalist-coder">>, types |-> <<"generalist">>,
          parallel |-> FALSE]
    ELSE IF complexity = MEDIUM
    THEN LET agents == <<"code-writer">>
                       \o (IF description.test THEN <<"tester">> ELSE <<>>)
                       \o (IF description.review THEN <<"reviewer">> ELSE <<>>)
         IN [agents |-> agents, types |-> <<"functional">>,
             parallel |-> Len(agents) = 1]
    ELSE LET a0 == IF domains # <<>> THEN domains ELSE <<"code-writer", "reviewer">>
             t0 == IF domains # <<>> THEN [i \in 1..Len(domains) |-> "domain"]
                   ELSE <<"functional", "functional">>
             hasTester == \E i \in 1..Len(a0) : a0[i] = "tester"
             a1 == IF hasTester THEN a0 ELSE Append(a0, "tester")
             t1 == IF hasTester THEN t0 ELSE Append(t0, "functional")
             hasReviewer == \E i \in 1..Len(a1) : a1[i] = "reviewer"
         IN [agents |-> IF hasReviewer THEN a1 ELSE Append(a1, "reviewer"),
             types |-> IF hasReviewer THEN t1 ELSE Append(t1, "functional"),
             parallel |-> Len(domains) > 1]

\* lines 278-350, without rationale and keywords_found
_create_assessment(complexity, confidence, description, domains, scope) ==
    LET s == SuggestsFor(complexity, description, domains)
    IN [complexity |-> complexity, confidence |-> confidence,
        suggested_agents |-> s.agents, suggested_agent_types |-> s.types,
        parallel_possible |-> s.parallel, domain_signals |-> domains,
        scope_estimate |-> scope]

\* lines 159-175 with the tests in the order medium, complex, simple
HintTier_MediumFirst(words) ==
    IF MEDIUM \in words THEN MEDIUM
    ELSE IF COMPLEX \in words THEN COMPLEX
    ELSE IF SIMPLE \in words THEN SIMPLE
    ELSE "None"

\* lines 159-175: the tier a given hint names, or none
HintTier(words) ==
    IF SIMPLE \in words THEN SIMPLE
    ELSE IF COMPLEX \in words THEN COMPLEX
    ELSE IF MEDIUM \in words THEN MEDIUM
    ELSE "None"

\* lines 190-204: the three scores after the adjustments
Scores(description, adjustment) ==
    LET c0 == RAdd(_calculate_keyword_score(description.complex), adjustment)
        m0 == RAdd(_calculate_keyword_score(description.medium), RHalf(adjustment))
        c1 == IF Len(description.domains) > 1 THEN RAdd(c0, <<3, 10>>) ELSE c0
    IN [simple |-> _calculate_keyword_score(description.simple),
        medium |-> IF description.scope = "multi_file" THEN RAdd(m0, <<3, 20>>) ELSE m0,
        complex |-> IF description.scope = "cross_module" THEN RAdd(c1, <<1, 5>>) ELSE c1]

\* the one sum of lines 191-204 whose double compares differently from the
\* exact value: (0.0 + -0.1) + 0.3 is 0.19999999999999998
RoundsBelowFifth(description, adjustment) ==
    /\ description.complex = 0
    /\ adjustment = <<-1, 10>>
    /\ Len(description.domains) > 1
    /\ description.scope # "cross_module"

\* line 211 with the multi-domain bonus deciding against simple
FinalComplexity_MultiDomainNotSimple(description, adjustment) ==
    LET scores == Scores(description, adjustment)
    IN IF RGt(scores.complex, <<2, 5>>) THEN COMPLEX
       ELSE IF /\ RGt(scores.simple, <<1, 2>>)
               /\ Len(description.domains) <= 1
               /\ RLt(scores.complex, <<1, 5>>)
            THEN SIMPLE
            ELSE MEDIUM

\* lines 208-214
FinalComplexity(description, adjustment) ==
    LET scores == Scores(description, adjustment)
    IN IF RGt(scores.complex, <<2, 5>>) THEN COMPLEX
       ELSE IF /\ RGt(scores.simple, <<1, 2>>)
               /\ (RLt(scores.complex, <<1, 5>>)
                      \/ RoundsBelowFifth(description, adjustment))
            THEN SIMPLE
            ELSE MEDIUM

\* lines 217-219
Confidence(scores) ==
    LET v == {scores.simple, scores.medium, scores.complex}
        max_score == CHOOSE x \in v : \A y \in v : RLe(y, x)
        rest == IF \E t, u \in {"simple", "medium", "complex"} :
                       t # u /\ scores[t] = max_score /\ scores[u] = max_score
                THEN {max_score} ELSE v \ {max_score}
        second_score == CHOOSE x \in rest : \A y \in rest : RLe(y, x)
    IN RMin(<<19, 20>>, RAdd(<<1, 2>>, RSub(max_score, second_score)))

\* lines 144-227, for an analyzer constructed with metrics m
analyze(description, user_hint, m) ==
    IF user_hint.given /\ HintTier(user_hint.words) # "None"
    THEN _create_assessment(HintTier(user_hint.words), <<19, 20>>, description,
                            <<>>, "unknown")
    ELSE LET adjustment == _calculate_threshold_adjustment(m)
         IN _create_assessment(FinalComplexity(description, adjustment),
                               Confidence(Scores(description, adjustment)),
                               description, description.domains, description.scope)

(***************************************************************************)
(* analyze as a function of its arguments and of the analyzer's metrics.   *)
(***************************************************************************)
Scopes == {"unknown", "single_file", "multi_file", "cross_module"}

\* \btest\b is also a medium pattern (line 53)
Descriptions ==
    {d \in [simple : 0..MaxKeywords, medium : 0..MaxKeywords,
            complex : 0..MaxKeywords,
            domains : {<<>>, <<"backend">>, <<"backend", "database">>},
            scope : Scopes, test : BOOLEAN, review : BOOLEAN] :
        d.test => d.medium > 0}

\* "Fix typo in variable name": \bfix\s+typo\b and nothing else
FixTypoInVariableName ==
    [simple |-> 1, medium |-> 0, complex |-> 0, domains |-> <<>>,
     scope |-> "unknown", test |-> FALSE, review |-> FALSE]

Hints ==
    {[given |-> FALSE, words |-> {}]}
        \cup [given : {TRUE},
              words : {{}, {SIMPLE}, {MEDIUM}, {COMPLEX}, {MEDIUM, COMPLEX},
                       {SIMPLE, COMPLEX}}]

\* no metrics, the defaults, a mean error rate over 0.2, an oscillation rate
\* over 0.15, and both
ClassifierMetrics ==
    {<<>>,
     <<DefaultMetrics>>,
     <<[DefaultMetrics EXCEPT !.agent_errors = <<Err("tester", RateTwoFailures)>>]>>,
     <<[DefaultMetrics EXCEPT !.oscillation_rate = <<1, 5>>]>>,
     <<[DefaultMetrics EXCEPT !.agent_errors = <<Err("tester", RateTwoFailures)>>,
                              !.oscillation_rate = <<1, 5>>]>>}

InitClassify ==
    /\ pc = "classify"
    /\ \E description \in Descriptions, user_hint \in Hints :
          metrics = <<[description |-> description, user_hint |-> user_hint]>>
    /\ metrics_doc \in ClassifierMetrics
    /\ NotStarted

Classify ==
    /\ pc = "classify"
    /\ cycle_result' = <<analyze(metrics[1].description, metrics[1].user_hint,
                                 metrics_doc)>>
    /\ pc' = "classified"
    /\ UNCHANGED <<outcome, exc, current_task, task_doc, metrics_doc, registry_doc,
                   s3_doc, s4_doc, log, clock, metrics, adaptations, s4_result,
                   s3_result, s1_results, audit_result, conflicts,
                   should_parallel, idx, calls, inflight>>

SpecClassify == InitClassify /\ [][Classify]_vars

(***************************************************************************)
(* Properties of run_cycle, checked under Spec.                            *)
(***************************************************************************)
IsAgentCall(c) == c.site = "agent"
IsOperationsCall(c) == c.site \in {"agent", "review"}
IsAnswered(c) == c.output # "pending"
IsReviewResult(r) == r.agent = "s1-reviewer"
IsAgentResult(r) == r.agent # "s1-reviewer"

NamesOf(cs) == [i \in 1..Len(cs) |-> cs[i].agent]
IsPrefix(s, t) == Len(s) <= Len(t) /\ \A i \in 1..Len(s) : s[i] = t[i]
CallsTo(agent) == {i \in 1..Len(calls) : calls[i].agent = agent}
CallsAt(site) == {i \in 1..Len(calls) : calls[i].site = site}

\* the names under which the allocation of the control phase is invoked
AllocatedNames ==
    [i \in 1..Len(SelectedAgents(s3_result)) |-> "s1-" \o SelectedAgents(s3_result)[i]]

\* the operations phase is over: the audit has been started, or the cycle returned
OperationsOver == CallsTo("system3-audit") # {}

\* coordination has been started: the control phase, approval included, is over
ControlOver == CallsTo("system2-coordination") # {}

PhaseStep(q, agent) ==
    CASE q = "started" /\ agent = "system4-strategy" -> "intelligence"
      [] q = "intelligence" /\ agent = "system3-control" -> "control"
      [] q = "control" /\ agent = "system5-policy" -> "approval"
      [] q = "approval" /\ agent = "system3-control" -> "replan"
      [] q \in {"control", "approval", "replan"} /\ agent = "system2-coordination"
            -> "coordination"
      [] q \in {"coordination", "operations"}
            /\ agent \in {"s1-" \o a : a \in AgentNames \cup {"reviewer"}}
            -> "operations"
      [] q \in {"coordination", "operations"} /\ agent = "system3-audit" -> "audit"
      [] q = "audit" /\ agent = "system5-policy" -> "conflict"
      [] OTHER -> "out of order"

RECURSIVE PhaseAfter(_, _)
PhaseAfter(q, cs) ==
    IF cs = <<>> THEN q ELSE PhaseAfter(PhaseStep(q, Head(cs).agent), Tail(cs))

\* C1: the collaborators of a cycle are started in the order intelligence,
\* control, [approval, then possibly control again], coordination, the
\* operations agents, audit, [conflict resolution], and none of them is
\* started while another one is still running.
C1_PhasesInOrder ==
    /\ PhaseAfter("started", calls) # "out of order"
    /\ \A i \in 1..Len(calls) : calls[i].during = "None"
    /\ \A i \in 1..Len(calls) : i < Len(calls) => IsAnswered(calls[i])

\* a returned cycle that went through every phase, the optional ones included
C1_Witness ==
    /\ outcome = "returned"
    /\ PhaseAfter("started", calls) = "conflict"
    /\ CallsAt("replan") # {}
    /\ CallsAt("agent") # {}

C3_EveryAgentInvokedOnce ==
    LET agent_calls == NamesOf(SelectSeq(calls, IsAgentCall))
        answered == SelectSeq(SelectSeq(calls, IsOperationsCall), IsAnswered)
    IN /\ IsPrefix(agent_calls, AllocatedNames)
       /\ OperationsOver => agent_calls = AllocatedNames
       /\ Len(s1_results) = Len(answered)
       /\ \A k \in 1..Len(answered) :
             /\ s1_results[k].agent = answered[k].agent
             /\ s1_results[k].success = (answered[k].output = "true")

\* two agents allocated, the first one failed, the second one invoked all the same
C3_Witness ==
    /\ OperationsOver
    /\ Len(AllocatedNames) = 2
    /\ Len(s1_results) = 2
    /\ ~s1_results[1].success
    /\ s1_results[2].agent = AllocatedNames[2]

\* C4: the results of the allocated agents are recorded in allocation order,
\* with parallelize active or not, and a review result stands immediately
\* before the result of the agent it gates.
C4_ResultsInAllocationOrder ==
    LET agent_results == NamesOf(SelectSeq(s1_results, IsAgentResult))
        active == get_active_adaptations(metrics_doc)
    IN /\ IsPrefix(agent_results, AllocatedNames)
       /\ OperationsOver => agent_results = AllocatedNames
       /\ \A j \in 1..Len(s1_results) :
             IsReviewResult(s1_results[j]) =>
                 /\ OperationsOver => j < Len(s1_results)
                 /\ j < Len(s1_results) =>
                       \E i \in 1..Len(active) :
                           /\ active[i].type = "add_review_step"
                           /\ s1_results[j + 1].agent = "s1-" \o active[i].target

\* parallelize is active, two different agents are allocated, one of them gated
C4_Witness ==
    /\ OperationsOver
    /\ should_parallel
    /\ Len(s1_results) = 3
    /\ IsReviewResult(s1_results[2])
    /\ s1_results[1].agent # s1_results[3].agent

\* the agents whose rolling error rate is above 0.3 in the snapshot m
FailingAgents(m) ==
    {a \in AgentNames : \E i \in 1..Len(m.agent_errors) :
        m.agent_errors[i].agent = a /\ RGt(m.agent_errors[i].rate, <<3, 10>>)}

ReviewStanding(m) ==
    \E i \in 1..Len(m.active_adaptations) :
        m.active_adaptations[i].type = "add_review_step"

\* every invocation of agent a, and every result of it, comes right after a review
ReviewedBefore(a) ==
    /\ \A i \in 1..Len(calls) :
          (calls[i].site = "agent" /\ calls[i].agent = "s1-" \o a) =>
              i > 1 /\ calls[i - 1].site = "review" /\ calls[i - 1].agent = "s1-reviewer"
                    /\ IsAnswered(calls[i - 1])
    /\ \A j \in 1..Len(s1_results) :
          s1_results[j].agent = "s1-" \o a =>
              j > 1 /\ IsReviewResult(s1_results[j - 1])

\* C5: when exactly one agent A is above 0.3 at the start of the cycle and no
\* add_review_step is active, exactly one add_review_step is proposed, its
\* target is A, it becomes active, and every invocation of A in the cycle
\* comes right after a review whose result is recorded.
C5_ReviewForTheFailingAgent ==
    (/\ metrics # <<>>
     /\ Cardinality(FailingAgents(metrics[1])) = 1
     /\ ~ReviewStanding(metrics[1])) =>
        LET A == CHOOSE a \in FailingAgents(metrics[1]) : TRUE
            proposed == {i \in 1..Len(adaptations) :
                            adaptations[i].type = "add_review_step"}
            active == get_active_adaptations(metrics_doc)
        IN /\ Cardinality(proposed) = 1
           /\ \A i \in proposed : adaptations[i].target = A
           /\ Cardinality({i \in 1..Len(active) :
                             active[i].type = "add_review_step"}) = 1
           /\ \A i \in 1..Len(active) :
                 active[i].type = "add_review_step" => active[i].target = A
           /\ ReviewedBefore(A)

\* the failing agent was allocated, reviewed and invoked
C5_Witness ==
    /\ metrics # <<>>
    /\ Cardinality(FailingAgents(metrics[1])) = 1
    /\ ~ReviewStanding(metrics[1])
    /\ OperationsOver
    /\ \E j \in 1..Len(s1_results) :
          s1_results[j].agent \in {"s1-" \o a : a \in FailingAgents(metrics[1])}

\* C6: every allocated agent that was above 0.3 at the start of the cycle is
\* invoked right after a review, also when two agents are above 0.3 or an
\* add_review_step for another agent was already active.
C6_ReviewForEveryFailingAgent ==
    metrics # <<>> => \A a \in FailingAgents(metrics[1]) : ReviewedBefore(a)

(***************************************************************************)
(* Properties of apply_adaptations, checked under SpecEngine.              *)
(***************************************************************************)
OnePerType(active) ==
    \A i, j \in 1..Len(active) : active[i].type = active[j].type => i = j

\* C7: whatever lists are applied, one after the other and with repeated
\* types in them, the active list holds at most one entry of each type, and
\* a call leaves every entry that was active before it in place and unchanged.
C7_OneEntryPerType ==
    [][LET before == get_active_adaptations(metrics_doc)
           after == get_active_adaptations(metrics_doc')
       IN /\ OnePerType(after)
          /\ IsPrefix(before, after)
          /\ \A i \in 1..Len(after) :
                i > Len(before) => after[i].type \notin ActiveTypes(before)]_vars

\* a list was applied whose entry of an active type was dropped: its type is
\* active with another trigger or target, and the entry itself was not stamped
C7_Witness ==
    /\ pc = "engine"
    /\ \E i \in 1..Len(adaptations) :
          LET active == get_active_adaptations(metrics_doc)
          IN /\ adaptations[i].applied_at = 0
             /\ \E j \in 1..Len(active) :
                   /\ active[j].type = adaptations[i].type
                   /\ active[j].target # adaptations[i].target
             /\ Len(active) = 2

(***************************************************************************)
(* Properties of analyze_metrics, checked under SpecAnalyze.               *)
(***************************************************************************)
Proposals(type, target) ==
    Cardinality({i \in 1..Len(adaptations) :
                    adaptations[i].type = type /\ adaptations[i].target = target})

Fires(condition) == IF condition THEN 1 ELSE 0

\* C8: each of the six rules proposes its adaptation exactly when its own
\* metric is strictly beyond its threshold, whatever the other metrics are: a
\* metric equal to its threshold proposes nothing.
C8_RulesIndependentAndStrict ==
    pc = "analyzed" =>
        LET m == metrics[1]
        IN /\ \A a \in AgentNames :
                Proposals("add_review_step", a) = Fires(a \in FailingAgents(m))
           /\ Proposals("lower_complexity_threshold", "None")
                 = Fires(RLt(m.completion_rate, <<1, 2>>))
           /\ Proposals("increase_s2_involvement", "None")
                 = Fires(RGt(m.oscillation_rate, <<1, 5>>))
           /\ Proposals("require_s5_approval", "None") = Fires(m.s3_s4_conflicts > 3)
           /\ Proposals("tighten_s3_star", "None")
                 = Fires(RLt(m.audit_pass_rate, <<4, 5>>))
           /\ Proposals("parallelize_s1", "None")
                 = Fires(RGt(m.avg_cycle_iterations, <<3, 2>>))
           /\ Len(adaptations)
                 = Cardinality(FailingAgents(m))
                   + Fires(RLt(m.completion_rate, <<1, 2>>))
                   + Fires(RGt(m.oscillation_rate, <<1, 5>>))
                   + Fires(m.s3_s4_conflicts > 3)
                   + Fires(RLt(m.audit_pass_rate, <<4, 5>>))
                   + Fires(RGt(m.avg_cycle_iterations, <<3, 2>>))

\* every metric equal to its threshold: nothing is proposed
C8_Witness ==
    /\ pc = "analyzed"
    /\ adaptations = <<>>
    /\ \E i \in 1..Len(metrics[1].agent_errors) :
          metrics[1].agent_errors[i].rate = <<3, 10>>
    /\ metrics[1].completion_rate = <<1, 2>>
    /\ metrics[1].oscillation_rate = <<1, 5>>
    /\ metrics[1].s3_s4_conflicts = 3
    /\ metrics[1].audit_pass_rate = <<4, 5>>
    /\ metrics[1].avg_cycle_iterations = <<3, 2>>

(***************************************************************************)
(* Properties of the approval step of run_cycle, checked under Spec.       *)
(***************************************************************************)
ApprovalStanding(m) ==
    \E i \in 1..Len(m.active_adaptations) :
        m.active_adaptations[i].type = "require_s5_approval"

\* C9: in a cycle that got past the control phase, approval was asked for
\* exactly when require_s5_approval was active at the end of the control
\* phase: never in a cycle that started with at most 3 conflicts and none
\* standing, always in a cycle that started with more than 3 conflicts.
C9_ApprovalWhenRequired ==
    /\ ControlOver =>
          (CallsAt("approval") # {}
              <=> \E i \in 1..Len(get_active_adaptations(metrics_doc)) :
                     get_active_adaptations(metrics_doc)[i].type
                         = "require_s5_approval")
    /\ (metrics # <<>> /\ metrics[1].s3_s4_conflicts <= 3
           /\ ~ApprovalStanding(metrics[1])) => CallsAt("approval") = {}
    /\ (metrics # <<>> /\ metrics[1].s3_s4_conflicts > 3 /\ ControlOver)
           => CallsAt("approval") # {}
    /\ (metrics # <<>> /\ ApprovalStanding(metrics[1]) /\ ControlOver)
           => CallsAt("approval") # {}

\* a cycle that started with more than 3 conflicts and nothing standing asked
C9_Witness ==
    /\ metrics # <<>>
    /\ metrics[1].s3_s4_conflicts > 3
    /\ ~ApprovalStanding(metrics[1])
    /\ ControlOver
    /\ CallsAt("approval") # {}

ConflictCheckDone ==
    \E i \in CallsTo("system3-audit") : IsAnswered(calls[i])

\* the change of the persisted counter since the cycle read the metrics
CounterChange ==
    get_viability_metrics(metrics_doc).s3_s4_conflicts - metrics[1].s3_s4_conflicts

\* the control phase wrote a tier, the intelligence phase a recommended one
ControlTierPresent == s3_result.from_doc
RecommendationPresent ==
    s4_result.from_doc /\ s4_result.rec.is_dict /\ s4_result.rec.ca # ""

ConflictEntries ==
    {i \in 1..Len(log) : log[i].event_type = "conflict_detected"}

\* C11: a cycle in which the control tier and the recommended tier differ
\* raises the persisted conflict counter by exactly 1 and has exactly one
\* conflict record; one in which they agree leaves the counter as it was; no
\* cycle changes the counter by more than 1.
C11_OneConflictPerCycle ==
    metrics # <<>> =>
        /\ CounterChange \in {0, 1}
        /\ Len(conflicts) <= 1
        /\ CounterChange = Len(conflicts)
        /\ ~ConflictCheckDone => CounterChange = 0
        /\ (ConflictCheckDone /\ ControlTierPresent /\ RecommendationPresent) =>
              IF s3_result.complexity # s4_result.rec.ca
              THEN CounterChange = 1 /\ Len(conflicts) = 1
              ELSE CounterChange = 0 /\ conflicts = <<>>
        /\ cycle_result # <<>> =>
              /\ cycle_result[1].conflicts = conflicts
              /\ Cardinality(ConflictEntries) = Len(conflicts)

\* a returned cycle whose two tiers were both written and differed
C11_Witness ==
    /\ cycle_result # <<>>
    /\ ControlTierPresent /\ RecommendationPresent
    /\ s3_result.complexity # s4_result.rec.ca
    /\ CounterChange = 1
    /\ metrics[1].s3_s4_conflicts = 3

\* C12: when the intelligence phase gave no recommended complexity, no
\* conflict is recorded, the counter is unchanged and nobody is invoked to
\* resolve a conflict, whatever tier the control phase chose.
C12_NoRecommendationNoConflict ==
    (metrics # <<>> /\ ~RecommendationPresent) =>
        /\ conflicts = <<>>
        /\ CounterChange = 0
        /\ CallsAt("resolution") = {}

\* C13: when the audit output is not a structured verdict the cycle goes on
\* to its end, and its audit_passed, as returned and as folded into
\* audit_pass_rate, is the success flag of the audit invocation.
C13_AuditFallback ==
    \A i \in CallsTo("system3-audit") :
        (IsAnswered(calls[i]) /\ ~audit_result.from_json) =>
            LET flag == calls[i].output = "true"
            IN /\ audit_result.audit_passed = flag
               /\ pc \in {"finish", "resolution_call", "resolution_wait", "done"}
               /\ outcome = "raised" =>
                     exc \in {"failure in finish", "failure in resolution_call"}
               /\ cycle_result # <<>> =>
                     /\ cycle_result[1].audit_passed = flag
                     /\ cycle_result[1].success = flag
                     /\ get_viability_metrics(metrics_doc).audit_pass_rate
                           = EMA(<<3, 20>>, IF flag THEN 1 ELSE 0,
                                 metrics[1].audit_pass_rate)

\* a cycle returned after an unparsable audit output of a failed invocation
C13_Witness ==
    /\ cycle_result # <<>>
    /\ ~audit_result.from_json
    /\ \E i \in CallsTo("system3-audit") : calls[i].output = "false"
    /\ ~cycle_result[1].audit_passed

\* C14: the task ends completed exactly when every agent result succeeded and
\* the audit passed, which is the outcome folded into completion_rate; a
\* cycle with a failed operations agent never ends completed.
C14_StatusIsOverallOutcome ==
    cycle_result # <<>> =>
        /\ task_doc[1].status \in {"completed", "failed"}
        /\ task_doc[1].status = "completed"
              <=> ((\A j \in 1..Len(s1_results) : s1_results[j].success)
                   /\ audit_result.audit_passed)

\* C16: when run_cycle has returned or raised, the current-task slot is
\* empty, and the task's entries are still in the execution log.
C16_SlotEmptiedAtEnd ==
    pc = "done" =>
        /\ task_doc = <<>>
        /\ \E i \in 1..Len(log) : log[i].task_id = TaskId

(***************************************************************************)
(* Properties of the rolling rates, checked under SpecRates.               *)
(***************************************************************************)
InUnitInterval(r) == r[2] > 0 /\ 0 <= r[1] /\ r[1] <= r[2]

\* C15: after any sequence of metric updates from the default metrics, the
\* completion, audit and oscillation rates and every agent's error rate lie
\* between 0 and 1, both included.
C15_RatesInUnitInterval ==
    LET m == get_viability_metrics(metrics_doc)
    IN /\ InUnitInterval(m.completion_rate)
       /\ InUnitInterval(m.audit_pass_rate)
       /\ InUnitInterval(m.oscillation_rate)
       /\ \A i \in 1..Len(m.agent_errors) : InUnitInterval(m.agent_errors[i].rate)

\* every rate has moved off its default and lies strictly inside the interval
C15_Witness ==
    /\ pc = "rates"
    /\ metrics_doc # <<>>
    /\ RLt(metrics_doc[1].completion_rate, <<1, 1>>)
    /\ RLt(metrics_doc[1].audit_pass_rate, <<1, 1>>)
    /\ RGt(metrics_doc[1].oscillation_rate, <<0, 1>>)
    /\ \E i \in 1..Len(metrics_doc[1].agent_errors) :
          /\ RGt(metrics_doc[1].agent_errors[i].rate, <<0, 1>>)
          /\ RLt(metrics_doc[1].agent_errors[i].rate, <<1, 1>>)

(***************************************************************************)
(* Properties of reset_state, checked under SpecReset.                     *)
(***************************************************************************)
\* what the getter of document d returns when its file is absent
DefaultRead(d) ==
    CASE d = "viability_metrics" -> <<DefaultMetrics>>
      [] d = "agent_registry" -> <<DefaultRegistry>>
      [] OTHER -> <<>>

\* the reads made since the last write or reset
ReadsSince == IF cycle_result = <<>> THEN Unread ELSE cycle_result[1]

\* C17: after reset_state the five documents are absent, and each read that
\* follows it, with no write in between, returns the default: no task, no
\* allocation, no environment analysis, the default metrics and the seeded
\* default registry (which that read also stores).
C17_ResetGivesDefaults ==
    pc = "reset" =>
        /\ task_doc = <<>> /\ metrics_doc = <<>> /\ s3_doc = <<>> /\ s4_doc = <<>>
        /\ registry_doc = IF ReadsSince["agent_registry"] = <<>>
                          THEN <<>> ELSE <<DefaultRegistry>>
        /\ \A d \in Documents :
              ReadsSince[d] # <<>> => ReadsSince[d] = <<DefaultRead(d)>>
        /\ DefaultMetrics.completion_rate = <<1, 1>>
        /\ DefaultMetrics.audit_pass_rate = <<1, 1>>
        /\ DefaultMetrics.oscillation_rate = <<0, 1>>
        /\ DefaultMetrics.agent_errors = <<>>
        /\ DefaultMetrics.s3_s4_conflicts = 0
        /\ DefaultMetrics.active_adaptations = <<>>

\* metrics were written before the reset and every getter has been called
\* after it
C17_Witness ==
    /\ pc = "reset"
    /\ idx > 0
    /\ \A d \in Documents : ReadsSince[d] # <<>>

(***************************************************************************)
(* Properties of a write and a concurrent read, checked under SpecWrite.   *)
(***************************************************************************)
\* C18: a read concurrent with a write returns the document as it was before
\* the write or the newly written document; it never returns the defaults of
\* a missing document when a document existed before the write.
C18_ReadIsOldOrNew ==
    cycle_result # <<>> =>
        LET read == cycle_result[1]
        IN /\ read.value \in {get_viability_metrics(read.before),
                              get_viability_metrics(read.after)}
           /\ read.before # <<>> => read.value # DefaultMetrics

(***************************************************************************)
(* Properties of concurrent cycles, checked under SpecConcurrent.          *)
(***************************************************************************)
\* the task records the store holds: current-task.json is its only place
StoredTasks == {task_doc[i] : i \in 1..Len(task_doc)}

\* C19: after two concurrent cycles have finished, the store still holds
\* each cycle's task record, with its own id and its final status.
C19_BothTaskRecordsKept ==
    (\A c \in TaskIds : pc[c] = "done") =>
        \A c \in TaskIds :
            \E t \in StoredTasks :
                t.id = c /\ t.status = current_task[c][1].status

\* the persisted counter, as get_viability_metrics reads it
PersistedConflicts(doc) == get_viability_metrics(doc).s3_s4_conflicts

\* C20: no step of concurrent cycles and hooks lowers the persisted
\* s3_s4_conflicts counter.
C20_ConflictsNeverDecrease ==
    [][PersistedConflicts(metrics_doc') >= PersistedConflicts(metrics_doc)]_vars

(***************************************************************************)
(* Termination of run_cycle, checked under SpecLive.                       *)
(***************************************************************************)
\* C21: every started cycle eventually reaches a terminal status, also when
\* a collaborator's process never exits.
C21_EveryCycleEnds ==
    (pc # "idle") ~>
        (pc = "done" /\ task_doc # <<>> /\ task_doc[1].status \in {"completed", "failed"})

(***************************************************************************)
(* Properties of get_task_summary over the log of a cycle, checked under   *)
(* Spec.                                                                   *)
(***************************************************************************)
\* the adaptations this cycle applied: stamped by apply_adaptations
NewlyApplied == {i \in 1..Len(adaptations) : adaptations[i].applied_at # 0}

\* C25: the summary of the task lists every adaptation its cycle newly
\* applied at its start.
C25_SummaryListsAdaptations ==
    pc \notin {"idle", "adapt"} =>
        \A i \in NewlyApplied :
            \E k \in 1..Len(get_task_summary(log, TaskId).adaptations) :
                DataGet(get_task_summary(log, TaskId).adaptations[k],
                        "adaptation_type") = adaptations[i].type

\* C26: once the cycle has ended the summary's status is the task's terminal
\* status and completed_at is set.
C26_SummaryHasTerminalStatus ==
    pc = "done" =>
        /\ get_task_summary(log, TaskId).status = task_doc[1].status
        /\ get_task_summary(log, TaskId).completed_at = "set"

(***************************************************************************)
(* Properties of the execution log, checked under SpecLog.                 *)
(***************************************************************************)
\* the positions of the log whose field has the value
Positions(field, value) == {i \in 1..Len(log) : log[i][field] = value}

\* the k-th smallest of a set of positions
Kth(P, k) == CHOOSE i \in P : Cardinality({j \in P : j < i}) = k - 1

\* the entries are those of the log with the value, in the log's order
InLogOrder(entries, field, value) ==
    /\ Len(entries) = Cardinality(Positions(field, value))
    /\ \A k \in 1..Len(entries) : entries[k] = log[Kth(Positions(field, value), k)]

\* C22: an entry appended through a log is stored with that log's session
\* id, whatever session id its creator gave it, the other fields as created;
\* read_all, read_session and read_task return the entries in append order.
C22_StampedAndInAppendOrder ==
    /\ Len(calls) = Len(log)
    /\ \A i \in 1..Len(log) :
          calls[i].through \in LogSessions =>
              /\ log[i].session_id = calls[i].through
              /\ \A f \in LogFields \ {"session_id"} : log[i][f] = calls[i].entry[f]
    /\ (cycle_result # <<>> /\ cycle_result[1].result.ok) =>
          LET q == cycle_result[1]
          IN CASE q.query = "read_all" -> q.result.entries = log
               [] q.query = "read_session" ->
                     InLogOrder(q.result.entries, "session_id", q.arg)
               [] q.query = "read_task" ->
                     InLogOrder(q.result.entries, "task_id", q.arg)

\* entries were appended through both logs with a creator's own session id
\* and a session was read back
C22_Witness ==
    /\ Len(log) >= 3
    /\ \E i, j \in 1..Len(log) :
          /\ calls[i].through = SessionId /\ calls[j].through = "session-2" /\ i < j
          /\ calls[i].entry.session_id = "session-9"
    /\ cycle_result # <<>>
    /\ cycle_result[1].query = "read_session"
    /\ cycle_result[1].result.ok
    /\ Len(cycle_result[1].result.entries) = 2

\* C23: no operation but clear changes the log otherwise than by adding at
\* its end, reset_state leaves it as it is, and clear empties it.
C23_AppendOnly ==
    [][/\ ClearLog => log' = <<>>
       /\ ResetState => log' = log
       /\ ~ClearLog => IsPrefix(log, log')]_vars

\* a log with lines of the controller and of a hook after a reset_state
C23_Witness ==
    /\ pc = "reset"
    /\ Len(log) >= 3
    /\ \E i, j \in 1..Len(log) : calls[i].through = "hook" /\ calls[j].through = SessionId

\* C24: every line of the log has the fields of LogEntry and an event type
\* of the enumeration, and read_all succeeds.
C24_EveryLineIsALogEntry ==
    /\ \A i \in 1..Len(log) :
          /\ DOMAIN log[i] = LogFields
          /\ log[i].event_type \in LogEventTypes
    /\ (cycle_result # <<>> /\ cycle_result[1].query = "read_all") =>
          cycle_result[1].result.ok

(***************************************************************************)
(* Properties of the standing adaptations, checked under SpecExpiry.       *)
(***************************************************************************)
\* the standing entries of a type, in their order
EntriesOfType(doc, type) ==
    SelectSeq(get_active_adaptations(doc), LAMBDA a : a.type = type)

\* the entries of all other types, in their order
EntriesNotOfType(doc, type) ==
    SelectSeq(get_active_adaptations(doc), LAMBDA a : a.type # type)

C28_AgentsRunWithoutAllocation ==
    (OperationsOver /\ ~s3_result.from_doc) => CallsAt("agent") # {}

(***************************************************************************)
(* The collaborator documents, checked under SpecDocs.                     *)
(***************************************************************************)
\* C29: the allocation OPERATIONS acts on is the cycle's own: when agents
\* have been selected from a persisted allocation, its task_id is the id of
\* the task of this cycle.
C29_AllocationIsTheCyclesOwn ==
    (s3_result.from_doc /\ CallsAt("agent") # {})
        => s3_doc # <<>> /\ s3_doc[1].task_id = TaskId

\* C30: a document that is not the expected structure makes the controller
\* fall back to the raw output: nothing is taken from the document and the
\* cycle does not end with the error of reading it.
C30_UninterpretableDocumentFallsBack ==
    /\ s3_doc \in UninterpretableS3Docs
          => ~s3_result.from_doc /\ exc # TypeErrorText("S3Allocation")
    /\ s4_doc \in UninterpretableS4Docs
          => ~s4_result.from_doc /\ exc # TypeErrorText("S4Environment")

(***************************************************************************)
(* Properties of analyze, checked under SpecClassify.                      *)
(***************************************************************************)
Classified == pc = "classified"
Given == metrics[1].user_hint.given
HintWords == metrics[1].user_hint.words
Described == metrics[1].description
Assessment == cycle_result[1]

\* C31 as stated: a hint containing a tier word makes analyze return exactly
\* that tier with confidence 0.95, whatever the description and the metrics.
C31_HintWordIsTheTier ==
    (Classified /\ Given)
        => \A word \in HintWords : /\ Assessment.complexity = word
                                   /\ Assessment.confidence = <<19, 20>>

\* C31: a hint containing tier words makes analyze return, with confidence
\* 0.95 and whatever the description and the metrics, the first of simple,
\* complex, medium that the hint contains.
C31_FirstHintWordIsTheTier ==
    (Classified /\ Given /\ HintWords # {})
        => /\ Assessment.confidence = <<19, 20>>
           /\ SIMPLE \in HintWords => Assessment.complexity = SIMPLE
           /\ (COMPLEX \in HintWords /\ SIMPLE \notin HintWords)
                 => Assessment.complexity = COMPLEX
           /\ HintWords = {MEDIUM} => Assessment.complexity = MEDIUM

\* a hint with "medium" and "complex" on a description whose keywords alone
\* give simple under adjusted metrics
C31_Witness ==
    /\ Classified
    /\ Given
    /\ HintWords = {MEDIUM, COMPLEX}
    /\ Assessment.complexity = COMPLEX
    /\ FinalComplexity(Described, _calculate_threshold_adjustment(metrics_doc)) = SIMPLE
    /\ Len(Described.domains) > 1

\* C32: a description matching two or more domain keyword sets is never
\* classified simple, for all keyword matches, scopes and metrics.
C32_MultiDomainNeverSimple ==
    (Classified /\ ~Given /\ Len(Described.domains) > 1)
        => Assessment.complexity # SIMPLE

\* C33: with no hint and default metrics, a description whose only signal is
\* one simple keyword match is simple, with the generalist alone and no
\* parallelism.
C33_FixTypoIsSimple ==
    (Classified /\ ~Given /\ Described = FixTypoInVariableName
       /\ metrics_doc \in {<<>>, <<DefaultMetrics>>})
        => /\ Assessment.complexity = SIMPLE
           /\ Assessment.suggested_agents = <<"generalist-coder">>
           /\ ~Assessment.parallel_possible

(***************************************************************************)
(* Properties of one cycle's log and metrics, checked under Spec.          *)
(***************************************************************************)
\* C34: the adaptation-applied entries of a cycle are those of the
\* adaptations it newly added to the standing set: a proposal dropped
\* because its type was already active is neither logged nor reported in
\* the cycle result.
C34_OnlyNewAdaptationsLogged ==
    pc \notin {"idle", "adapt"} =>
        /\ Cardinality(Positions("event_type", "adaptation_applied"))
              = Cardinality(NewlyApplied)
        /\ (pc = "done" /\ outcome = "returned")
              => \A i \in 1..Len(cycle_result[1].adaptations) :
                     cycle_result[1].adaptations[i].applied_at # 0

\* the positions in the log of the terminal events
TerminalPositions ==
    {i \in 1..Len(log) : log[i].event_type \in {"task_completed", "task_failed"}}

\* C36: a cycle appends one terminal event, task_completed or task_failed,
\* and only when it ends; it is the last entry, the task_started entry is
\* the first, and it is task_completed exactly when the persisted task
\* status is completed.
C36_OneTerminalEventLast ==
    /\ pc # "done" => TerminalPositions = {}
    /\ log # <<>> => Positions("event_type", "task_started") = {1}
    /\ pc = "done" =>
          /\ TerminalPositions = {Len(log)}
          /\ log[Len(log)].task_id = TaskId
          /\ log[Len(log)].event_type = "task_completed"
                <=> task_doc[1].status = "completed"

\* a cycle that ran agents and ended failed on the audit's verdict
C36_Witness ==
    /\ pc = "done"
    /\ outcome = "returned"
    /\ task_doc[1].status = "failed"
    /\ CallsAt("agent") # {}
    /\ log[Len(log)].event_type = "task_failed"

\* the rolling rates of a metrics record
Rates(m) ==
    [completion_rate |-> m.completion_rate, audit_pass_rate |-> m.audit_pass_rate,
     oscillation_rate |-> m.oscillation_rate, agent_errors |-> m.agent_errors]

C35_LastEntriesInOrder ==
    (cycle_result # <<>> /\ cycle_result[1].result.ok) =>
        LET n == cycle_result[1].arg
            entries == cycle_result[1].result.entries
            k == IF n < Len(log) THEN n ELSE Len(log)
        IN /\ Len(entries) = k
           /\ \A i \in 1..k : entries[i] = log[Len(log) - k + i]

(***************************************************************************)
(* Cycles one after the other, checked under SpecCycles.                   *)
(***************************************************************************)
OscillationRate(doc) == get_viability_metrics(doc).oscillation_rate
Proposed(list, type) == \E i \in 1..Len(list) : list[i].type = type

\* C38: no step of a cycle or of the hook lowers oscillation_rate: the
\* metrics update of a cycle whose audit flags oscillation raises it, every
\* other step leaves it as it is, and the adaptation step of a cycle that
\* starts with the rate above 0.2 proposes increase_s2_involvement
C38_OscillationNeverDecreases ==
    [][/\ RLe(OscillationRate(metrics_doc), OscillationRate(metrics_doc'))
       /\ IF pc = "finish" /\ pc' = "done" /\ audit_result.oscillation
          THEN RLt(OscillationRate(metrics_doc), OscillationRate(metrics_doc'))
          ELSE OscillationRate(metrics_doc') = OscillationRate(metrics_doc)
       /\ (/\ pc = "adapt"
           /\ pc' = "s4_call"
           /\ RGt(OscillationRate(metrics_doc), OSCILLATION_THRESHOLD))
          => Proposed(adaptations', INCREASE_S2_INVOLVEMENT)]_vars

\* the third cycle starts with the rate two flagged audits left, and proposes
\* more coordination
C38_Witness ==
    /\ pc = "s4_call"
    /\ CyclesStarted = 3
    /\ RGt(OscillationRate(metrics_doc), OSCILLATION_THRESHOLD)
    /\ Proposed(adaptations, INCREASE_S2_INVOLVEMENT)
    /\ HookRunsDone = 1

\* C39: from the metrics of a fresh state directory, through cycles and hook
\* runs, avg_cycle_iterations stays 1.0, parallelize_s1 is neither proposed
\* nor standing, and every operations agent is started while no other
\* collaborator process is running
C39_NeverParallel ==
    /\ get_viability_metrics(metrics_doc).avg_cycle_iterations = ROne
    /\ metrics # <<>> => metrics[1].avg_cycle_iterations = ROne
    /\ ~Proposed(adaptations, PARALLELIZE_S1)
    /\ ~should_parallelize(get_active_adaptations(metrics_doc))
    /\ \A i \in 1..Len(calls) :
          IsOperationsCall(calls[i]) => calls[i].during = "None"
    /\ \A i, j \in 1..Len(calls) :
          (i < j /\ IsOperationsCall(calls[i])) => calls[i].output # "pending"

\* in a later cycle, after a hook run, the operations agent runs after the
\* reviewer has returned
C39_Witness ==
    /\ CyclesStarted >= 2
    /\ HookRunsDone = 1
    /\ pc = "agent_wait"
    /\ inflight = "s1-tester"
    /\ \E i \in 1..Len(calls) : calls[i].site = "review" /\ calls[i].output # "pending"
    /\ metrics_doc # <<>>

(***************************************************************************)
(* The prompts of the operations agents, checked under SpecPrompts.        *)
(***************************************************************************)
\* C40: the description in the prompt of every operations agent is the
\* description of the task of the cycle that invoked it
C40_PromptCarriesOwnDescription ==
    \A i \in 1..Len(calls) :
        calls[i].description = DescriptionOf(calls[i].task_id)
====
